---- MODULE Spec2Model ----
(* The course classification, de-duplication and scoring engine of
   generate_course_list.py (class BlackbaudSISExporter).
   Strings that the code inspects character by character (course titles and
   block labels) are sequences of one-character strings, so startswith, re.match
   and the `in` substring test are computed, not assumed.  Department names are
   only ever compared for equality and are plain strings.  Scores are counted in
   halves: 0 is 0, 1 is 0.5 and 2 is 1.0. *)
EXTENDS Integers, Sequences, FiniteSets, TLC

(* ---- string literals of the source ---- *)
Athenian_Wilderness_Experience == <<"A","t","h","e","n","i","a","n"," ","W","i","l","d","e","r","n","e","s","s"," ","E","x","p","e","r","i","e","n","c","e">>
College_Counseling == <<"C","o","l","l","e","g","e"," ","C","o","u","n","s","e","l","i","n","g">>
Community_Service == <<"C","o","m","m","u","n","i","t","y"," ","S","e","r","v","i","c","e">>
AM_Mtg == <<"A","M"," ","M","t","g">>
Grade_Dean == <<"G","r","a","d","e"," ","D","e","a","n">>
US_Advisory == <<"U","S"," ","A","d","v","i","s","o","r","y">>
MT_colon == <<"M","T",":">>
Teachers_Assistant == <<"T","e","a","c","h","e","r","'","s"," ","A","s","s","i","s","t","a","n","t">>
Hist == <<"H","i","s","t">>
Eng == <<"E","n","g">>
ABCDEFG == <<"A","B","C","D","E","F","G">>
Social_Psychology_H == <<"S","o","c","i","a","l"," ","P","s","y","c","h","o","l","o","g","y"," ","(","H",")">>
Politics_of_Elections_H_quote == <<"P","o","l","i","t","i","c","s"," ","o","f"," ","E","l","e","c","t","i","o","n","s"," ","(","H",")","'">>
Honors_marker == <<"(","H",")">>
US_Literature == <<"U","S"," ","L","i","t","e","r","a","t","u","r","e">>
World_Literature == <<"W","o","r","l","d"," ","L","i","t","e","r","a","t","u","r","e">>
US_History == <<"U","S"," ","H","i","s","t","o","r","y">>
World_History == <<"W","o","r","l","d"," ","H","i","s","t","o","r","y">>
Calculus == <<"C","a","l","c","u","l","u","s">>
Calculus_I_H == <<"C","a","l","c","u","l","u","s"," ","I"," ","(","H",")">>
AP_Calculus_AB == <<"A","P"," ","C","a","l","c","u","l","u","s"," ","A","B">>
Calculus_II_H == <<"C","a","l","c","u","l","u","s"," ","I","I"," ","(","H",")">>
Statistics_H == <<"S","t","a","t","i","s","t","i","c","s"," ","(","H",")">>
Multivariable_Calculus_H == <<"M","u","l","t","i","v","a","r","i","a","b","l","e"," ","C","a","l","c","u","l","u","s"," ","(","H",")">>
Algebra_II_H == <<"A","l","g","e","b","r","a"," ","I","I"," ","(","H",")">>
Pre_Calculus_H == <<"P","r","e","-","C","a","l","c","u","l","u","s"," ","(","H",")">>
Anatomy_and_Physiology == <<"A","n","a","t","o","m","y"," ","&"," ","P","h","y","s","i","o","l","o","g","y">>
Computer_Science_II_H == <<"C","o","m","p","u","t","e","r"," ","S","c","i","e","n","c","e"," ","I","I"," ","(","H",")">>
Advanced_Computer_Science_H == <<"A","d","v","a","n","c","e","d"," ","C","o","m","p","u","t","e","r"," ","S","c","i","e","n","c","e"," ","(","H",")">>
Advanced_Topics_in_Computer_Science_H == <<"A","d","v","a","n","c","e","d"," ","T","o","p","i","c","s"," ","i","n"," ","C","o","m","p","u","t","e","r"," ","S","c","i","e","n","c","e"," ","(","H",")">>
Data_Structures_and_Algorithms_H == <<"D","a","t","a"," ","S","t","r","u","c","t","u","r","e","s"," ","a","n","d"," ","A","l","g","o","r","i","t","h","m","s"," ","(","H",")">>
Software_Engineering_H == <<"S","o","f","t","w","a","r","e"," ","E","n","g","i","n","e","e","r","i","n","g"," ","(","H",")">>
IV_H == <<"I","V"," ","(","H",")">>
V_H == <<"V"," ","(","H",")">>
III_H == <<"I","I","I"," ","(","H",")">>
Space_IV == <<" ","I","V">>
Pre_Calculus == <<"P","r","e","-","C","a","l","c","u","l","u","s">>
Algebra_II == <<"A","l","g","e","b","r","a"," ","I","I">>
Statistics == <<"S","t","a","t","i","s","t","i","c","s">>
Financial_Math == <<"F","i","n","a","n","c","i","a","l"," ","M","a","t","h">>
II_H == <<"I","I"," ","(","H",")">>
III == <<"I","I","I">>
Space_II == <<" ","I","I">>
Space_I == <<" ","I">>

(* ---- course titles and block labels used as inputs ---- *)
MT_Tutoring == <<"M","T",":"," ","T","u","t","o","r","i","n","g">>
Teachers_Assistant_Bio == <<"T","e","a","c","h","e","r","'","s"," ","A","s","s","i","s","t","a","n","t"," ","B","i","o">>
Hist2_Modern_Europe == <<"H","i","s","t","2"," ","M","o","d","e","r","n"," ","E","u","r","o","p","e">>
Eng3_Poetry == <<"E","n","g","3"," ","P","o","e","t","r","y">>
Politics_of_Elections_H == <<"P","o","l","i","t","i","c","s"," ","o","f"," ","E","l","e","c","t","i","o","n","s"," ","(","H",")">>
C_Block == <<"C"," ","B","l","o","c","k">>
Ind_Study == <<"I","n","d"," ","S","t","u","d","y">>
Lit_A == <<"L","i","t"," ","A">>
Lit_B == <<"L","i","t"," ","B">>
Lit_C == <<"L","i","t"," ","C">>
Lit_D == <<"L","i","t"," ","D">>
Lit_E == <<"L","i","t"," ","E">>
Lit_F == <<"L","i","t"," ","F">>
Lit_G == <<"L","i","t"," ","G">>
Lit_H == <<"L","i","t"," ","H">>
Civics == <<"C","i","v","i","c","s">>
Economics == <<"E","c","o","n","o","m","i","c","s">>
Ethics == <<"E","t","h","i","c","s">>
Biology == <<"B","i","o","l","o","g","y">>
Physics == <<"P","h","y","s","i","c","s">>
Chemistry_H == <<"C","h","e","m","i","s","t","r","y"," ","(","H",")">>
Anatomy_and_Physiology_H == <<"A","n","a","t","o","m","y"," ","&"," ","P","h","y","s","i","o","l","o","g","y"," ","(","H",")">>
Computer_Science_I == <<"C","o","m","p","u","t","e","r"," ","S","c","i","e","n","c","e"," ","I">>
Robotics_H == <<"R","o","b","o","t","i","c","s"," ","(","H",")">>
Latin_I == <<"L","a","t","i","n"," ","I">>
Latin_II == <<"L","a","t","i","n"," ","I","I">>
Latin_II_H == <<"L","a","t","i","n"," ","I","I"," ","(","H",")">>
Latin_III == <<"L","a","t","i","n"," ","I","I","I">>
Latin_III_H == <<"L","a","t","i","n"," ","I","I","I"," ","(","H",")">>
Latin_IV == <<"L","a","t","i","n"," ","I","V">>
Latin_IV_H == <<"L","a","t","i","n"," ","I","V"," ","(","H",")">>
Latin_V == <<"L","a","t","i","n"," ","V">>
Latin_V_H == <<"L","a","t","i","n"," ","V"," ","(","H",")">>
Latin_IV_Seminar_H == <<"L","a","t","i","n"," ","I","V"," ","S","e","m","i","n","a","r"," ","(","H",")">>
Sign_Language == <<"S","i","g","n"," ","L","a","n","g","u","a","g","e">>
AP_Italian == <<"A","P"," ","I","t","a","l","i","a","n">>
Studio_Art == <<"S","t","u","d","i","o"," ","A","r","t">>
Studio_Art_H == <<"S","t","u","d","i","o"," ","A","r","t"," ","(","H",")">>

(* ---- DEPARTMENT_CONFIG ---- *)
DEPARTMENT_CONFIG ==
  [ skip_courses |-> << Athenian_Wilderness_Experience, College_Counseling,
                        Community_Service, AM_Mtg, Grade_Dean, US_Advisory >>,
    skip_course_prefixes |-> << MT_colon >>,
    skip_departments |-> << >>,
    primary_departments |-> << "Literature", "History/Social Science", "Math", "Science",
                               "Computer Science and Engineering", "World Languages",
                               "Fine Arts", "Other" >>,
    department_remapping |-> [k \in {} |-> "Other"],
    course_overrides |-> [k \in {} |-> "Other"] ]

(* The module-level dictionary the classifier reads each time it is called; its
   tables are edited in the source before a run. *)
VARIABLE config

(* Python's None, as the value of dept_name and of a missing dictionary entry. *)
None == "<None>"

(* A dictionary without keys. *)
EmptyDict == [k \in {} |-> None]

(* ---- Python primitives ---- *)
\* x in list
InList(x, list) == \E i \in 1..Len(list) : list[i] = x

\* dict.get(key, default)
Get(dict, key, default) == IF key \in DOMAIN dict THEN dict[key] ELSE default

\* s.startswith(prefix)
startswith(s, prefix) ==
  /\ Len(prefix) <= Len(s)
  /\ \A i \in 1..Len(prefix) : s[i] = prefix[i]

\* sub in s, for strings
Contains(s, sub) ==
  \E k \in 0..(Len(s) - Len(sub)) : \A i \in 1..Len(sub) : s[k + i] = sub[i]

\* the character class \d
IsDigit(c) == c \in {"0", "1", "2", "3", "4", "5", "6", "7", "8", "9"}

\* re.match(r'^<word>\d', s)
MatchWordDigit(word, s) ==
  /\ Len(s) > Len(word)
  /\ startswith(s, word)
  /\ IsDigit(s[Len(word) + 1])

(* ---- _should_skip_course ---- *)
\* mutant: the prefix list is not consulted
should_skip_course_exact_only(course_title) ==
  InList(course_title, config.skip_courses)

should_skip_course(course_title) ==
  \/ InList(course_title, config.skip_courses)
  \/ \E i \in 1..Len(config.skip_course_prefixes) :
       startswith(course_title, config.skip_course_prefixes[i])

(* ---- _check_special_course_prefix ---- *)
check_special_course_prefix(course_title) ==
  IF startswith(course_title, Teachers_Assistant) THEN "Other"
  ELSE IF MatchWordDigit(Hist, course_title) THEN "History/Social Science"
  ELSE IF MatchWordDigit(Eng, course_title) THEN "Literature"
  ELSE None

(* ---- _apply_department_config ---- *)
\* mutant: the result is not forced into the primary list
apply_department_config_unforced(course_title, original_dept) ==
  IF InList(original_dept, config.skip_departments) THEN None
  ELSE IF course_title \in DOMAIN config.course_overrides
    THEN config.course_overrides[course_title]
  ELSE IF original_dept \in DOMAIN config.department_remapping
    THEN config.department_remapping[original_dept]
  ELSE original_dept

apply_department_config(course_title, original_dept) ==
  IF InList(original_dept, config.skip_departments) THEN None
  ELSE LET final_dept ==
             IF course_title \in DOMAIN config.course_overrides
               THEN config.course_overrides[course_title]
             ELSE IF original_dept \in DOMAIN config.department_remapping
               THEN config.department_remapping[original_dept]
             ELSE original_dept
       IN IF ~InList(final_dept, config.primary_departments)
            THEN "Other" ELSE final_dept

(* ---- get_student_courses: the body of the enrollment loop ---- *)
\* mutant: the operands of `in` are exchanged (block_name in 'ABCDEFG')
BlockHasLetter_exchanged(enrollment) ==
  Contains(ABCDEFG, Get(enrollment, "block_name", << >>))

\* mutant: an enrollment without the field passes the gate
BlockHasLetter_absent_passes(enrollment) ==
  \/ "block_name" \notin DOMAIN enrollment
  \/ \E i \in 1..Len(ABCDEFG) : Contains(enrollment.block_name, << ABCDEFG[i] >>)

\* any(letter in enrollment.get('block_name', '') for letter in 'ABCDEFG')
BlockHasLetter(enrollment) ==
  \E i \in 1..Len(ABCDEFG) : Contains(Get(enrollment, "block_name", << >>), << ABCDEFG[i] >>)

\* mutant: the first entry is used where the second is meant
ResolveDepartments_first_entry(enrollment, course_title) ==
  LET departments == Get(enrollment, "departments", << >>) IN
  IF Len(departments) = 0
    THEN [rule |-> "no_departments", dept_name |-> "Other", printed |-> << >>]
  ELSE IF Get(departments[1], "name", None) = "Humanities"
    THEN IF Len(departments) > 1
           THEN [rule |-> "humanities_second",
                 dept_name |-> Get(departments[1], "name", "Other"), printed |-> << >>]
         ELSE IF course_title = Social_Psychology_H \/ course_title = Politics_of_Elections_H_quote
           THEN [rule |-> "humanities_hardcoded", dept_name |-> "History/Social Science",
                 printed |-> << >>]
         ELSE [rule |-> "humanities_error", dept_name |-> "Other",
               printed |-> << [level |-> "ERROR", course_title |-> course_title] >>]
  ELSE [rule |-> "first_department", dept_name |-> Get(departments[1], "name", None),
        printed |-> << >>]

\* The department chosen from enrollment['departments'] (lines 293-308), before
\* the configuration is applied, with the branch taken and the diagnostics printed.
ResolveDepartments(enrollment, course_title) ==
  LET departments == Get(enrollment, "departments", << >>) IN
  IF Len(departments) = 0
    THEN [rule |-> "no_departments", dept_name |-> "Other", printed |-> << >>]
  ELSE IF Get(departments[1], "name", None) = "Humanities"
    THEN IF Len(departments) > 1
           THEN [rule |-> "humanities_second",
                 dept_name |-> Get(departments[2], "name", "Other"), printed |-> << >>]
         ELSE IF course_title = Social_Psychology_H \/ course_title = Politics_of_Elections_H_quote
           THEN [rule |-> "humanities_hardcoded", dept_name |-> "History/Social Science",
                 printed |-> << >>]
         ELSE [rule |-> "humanities_error", dept_name |-> "Other",
               printed |-> << [level |-> "ERROR", course_title |-> course_title] >>]
  ELSE [rule |-> "first_department", dept_name |-> Get(departments[1], "name", None),
        printed |-> << >>]

\* Lines 292-311: the department list is resolved and the configuration applied;
\* configured holds the argument _apply_department_config was called with.
FromDepartmentList(enrollment, course_title) ==
  LET r == ResolveDepartments(enrollment, course_title) IN
  [rule |-> r.rule, dept_name |-> apply_department_config(course_title, r.dept_name),
   printed |-> r.printed, configured |-> << r.dept_name >>]

\* mutant: the configuration is applied after every branch
Classify_config_after_all(enrollment, course_title) ==
  LET special_dept == check_special_course_prefix(course_title) IN
  IF special_dept # None
    THEN [rule |-> "special_prefix",
          dept_name |-> apply_department_config(course_title, special_dept),
          printed |-> << >>, configured |-> << special_dept >>]
  ELSE IF ~BlockHasLetter(enrollment)
    THEN [rule |-> "block_gate",
          dept_name |-> apply_department_config(course_title, "Other"),
          printed |-> << >>, configured |-> << "Other" >>]
  ELSE FromDepartmentList(enrollment, course_title)

\* mutant: the block label is tested before the special prefixes
Classify_block_first(enrollment, course_title) ==
  LET special_dept == check_special_course_prefix(course_title) IN
  IF ~BlockHasLetter(enrollment)
    THEN [rule |-> "block_gate", dept_name |-> "Other", printed |-> << >>,
          configured |-> << >>]
  ELSE IF special_dept # None
    THEN [rule |-> "special_prefix", dept_name |-> special_dept, printed |-> << >>,
          configured |-> << >>]
  ELSE FromDepartmentList(enrollment, course_title)

\* mutant: the block label is not tested
Classify_no_gate(enrollment, course_title) ==
  LET special_dept == check_special_course_prefix(course_title) IN
  IF special_dept # None
    THEN [rule |-> "special_prefix", dept_name |-> special_dept, printed |-> << >>,
          configured |-> << >>]
  ELSE FromDepartmentList(enrollment, course_title)

\* Lines 284-311: the department of a course that is neither a duplicate nor skipped.
Classify(enrollment, course_title) ==
  LET special_dept == check_special_course_prefix(course_title) IN
  IF special_dept # None
    THEN [rule |-> "special_prefix", dept_name |-> special_dept, printed |-> << >>,
          configured |-> << >>]
  ELSE IF ~BlockHasLetter(enrollment)
    THEN [rule |-> "block_gate", dept_name |-> "Other", printed |-> << >>,
          configured |-> << >>]
  ELSE FromDepartmentList(enrollment, course_title)

\* mutant: the title is not recorded
MarkSeen_forgotten(seen, course_title) == seen

\* Line 278: seen_courses.add(course_title)
MarkSeen(seen, course_title) == seen \cup {course_title}

\* Lines 317-319: the warning for an honors title that lands in Other.
HonorsWarning(course_title, dept) ==
  IF Contains(course_title, Honors_marker) /\ dept = "Other"
    THEN << [level |-> "WARNING", course_title |-> course_title] >>
    ELSE << >>

\* mutant: the title is put at the head of the department's list
AddCourse_at_head(by_dept, dept, course_title) ==
  IF dept \in DOMAIN by_dept
    THEN [by_dept EXCEPT ![dept] = << course_title >> \o @]
    ELSE [d \in DOMAIN by_dept \cup {dept} |->
            IF d = dept THEN << course_title >> ELSE by_dept[d]]

\* Lines 321-324: append the title to the department's list.
AddCourse(by_dept, dept, course_title) ==
  IF dept \in DOMAIN by_dept
    THEN [by_dept EXCEPT ![dept] = Append(@, course_title)]
    ELSE [d \in DOMAIN by_dept \cup {dept} |->
            IF d = dept THEN << course_title >> ELSE by_dept[d]]

\* the result of an iteration that adds no course
NotAdded(by_dept, seen, rule) ==
  [courses_by_dept |-> by_dept, seen_courses |-> seen, rule |-> rule, printed |-> << >>,
   classified |-> << >>]

\* mutant: the title is not looked up in seen_courses
IterateEnrollment_no_duplicate_test(by_dept, seen, e) ==
  LET course_title == Get(e, "course_title", << >>) IN
  IF Get(e, "dropped", 1) # 0 THEN NotAdded(by_dept, seen, "dropped")
  ELSE IF course_title = << >> THEN NotAdded(by_dept, seen, "no_title")
  ELSE IF should_skip_course(course_title)
    THEN NotAdded(by_dept, MarkSeen(seen, course_title), "skip_course")
  ELSE LET c == Classify(e, course_title) IN
       [courses_by_dept |-> IF c.dept_name = None THEN by_dept
                            ELSE AddCourse(by_dept, c.dept_name, course_title),
        seen_courses |-> MarkSeen(seen, course_title),
        rule |-> c.rule,
        printed |-> IF c.dept_name = None THEN c.printed
                    ELSE c.printed \o HonorsWarning(course_title, c.dept_name),
        classified |-> << c >>]

\* mutant: the dropped field is not read
IterateEnrollment_dropped_not_read(by_dept, seen, e) ==
  LET course_title == Get(e, "course_title", << >>) IN
  IF course_title = << >> THEN NotAdded(by_dept, seen, "no_title")
  ELSE IF course_title \in seen THEN NotAdded(by_dept, seen, "duplicate")
  ELSE IF should_skip_course(course_title)
    THEN NotAdded(by_dept, MarkSeen(seen, course_title), "skip_course")
  ELSE LET c == Classify(e, course_title) IN
       [courses_by_dept |-> IF c.dept_name = None THEN by_dept
                            ELSE AddCourse(by_dept, c.dept_name, course_title),
        seen_courses |-> MarkSeen(seen, course_title),
        rule |-> c.rule,
        printed |-> IF c.dept_name = None THEN c.printed
                    ELSE c.printed \o HonorsWarning(course_title, c.dept_name),
        classified |-> << c >>]

\* mutant: the title is recorded as seen before the dropped field is read
IterateEnrollment_seen_before_dropped(by_dept, seen, e) ==
  LET course_title == Get(e, "course_title", << >>) IN
  IF course_title = << >> THEN NotAdded(by_dept, seen, "no_title")
  ELSE IF course_title \in seen THEN NotAdded(by_dept, seen, "duplicate")
  ELSE IF Get(e, "dropped", 1) # 0
    THEN NotAdded(by_dept, MarkSeen(seen, course_title), "dropped")
  ELSE IF should_skip_course(course_title)
    THEN NotAdded(by_dept, MarkSeen(seen, course_title), "skip_course")
  ELSE LET c == Classify(e, course_title) IN
       [courses_by_dept |-> IF c.dept_name = None THEN by_dept
                            ELSE AddCourse(by_dept, c.dept_name, course_title),
        seen_courses |-> MarkSeen(seen, course_title),
        rule |-> c.rule,
        printed |-> IF c.dept_name = None THEN c.printed
                    ELSE c.printed \o HonorsWarning(course_title, c.dept_name),
        classified |-> << c >>]

\* Lines 271-324: one iteration of the loop over response['value'], from the
\* dictionary and the set before it to the dictionary and the set after it, with the
\* branch taken, the lines printed and the classification if one was made.
IterateEnrollment(by_dept, seen, e) ==
  LET course_title == Get(e, "course_title", << >>) IN
  IF Get(e, "dropped", 1) # 0 THEN NotAdded(by_dept, seen, "dropped")
  ELSE IF course_title = << >> THEN NotAdded(by_dept, seen, "no_title")
  ELSE IF course_title \in seen THEN NotAdded(by_dept, seen, "duplicate")
  ELSE IF should_skip_course(course_title)
    THEN NotAdded(by_dept, MarkSeen(seen, course_title), "skip_course")
  ELSE LET c == Classify(e, course_title) IN
       [courses_by_dept |-> IF c.dept_name = None THEN by_dept
                            ELSE AddCourse(by_dept, c.dept_name, course_title),
        seen_courses |-> MarkSeen(seen, course_title),
        rule |-> c.rule,
        printed |-> IF c.dept_name = None THEN c.printed
                    ELSE c.printed \o HonorsWarning(course_title, c.dept_name),
        classified |-> << c >>]

(* ---- _calculate_course_score ---- *)
\* mutant: the loop runs over the whole list instead of range(course_index + 1)
NonExcludedCount_whole_list(all_courses, excluded_courses, stop) ==
  Cardinality({ i \in 1..Len(all_courses) : ~InList(all_courses[i], excluded_courses) })

\* Lines 977-980 and 995-998: the loop over range(stop) that counts the courses
\* of all_courses not in excluded_courses.
RECURSIVE NonExcludedCount(_, _, _)
NonExcludedCount(all_courses, excluded_courses, stop) ==
  IF stop = 0 THEN 0
  ELSE NonExcludedCount(all_courses, excluded_courses, stop - 1)
         + (IF ~InList(all_courses[stop], excluded_courses) THEN 1 ELSE 0)

\* mutant: the comparison is < 4 instead of <= 4
literature_score_off_by_one(course_name, course_index, all_courses) ==
  LET excluded_courses == << US_Literature, World_Literature >> IN
  IF InList(course_name, excluded_courses) THEN 0
  ELSE IF NonExcludedCount(all_courses, excluded_courses, course_index + 1) < 4 THEN 0
  ELSE 1

\* Lines 970-986, in halves.
literature_score(course_name, course_index, all_courses) ==
  LET excluded_courses == << US_Literature, World_Literature >> IN
  IF InList(course_name, excluded_courses) THEN 0
  ELSE IF NonExcludedCount(all_courses, excluded_courses, course_index + 1) <= 4 THEN 0
  ELSE 1

\* mutant: the courses are counted over the whole bucket
history_score_whole_bucket(course_name, course_index, all_courses) ==
  LET excluded_courses == << US_History, World_History >> IN
  IF InList(course_name, excluded_courses) THEN 0
  ELSE IF NonExcludedCount(all_courses, excluded_courses, Len(all_courses)) <= 2 THEN 0
  ELSE 1

\* mutant: the excluded courses before the course are counted too
history_score_counts_excluded(course_name, course_index, all_courses) ==
  LET excluded_courses == << US_History, World_History >> IN
  IF InList(course_name, excluded_courses) THEN 0
  ELSE IF course_index + 1 <= 2 THEN 0
  ELSE 1

\* Lines 988-1004, in halves.
history_score(course_name, course_index, all_courses) ==
  LET excluded_courses == << US_History, World_History >> IN
  IF InList(course_name, excluded_courses) THEN 0
  ELSE IF NonExcludedCount(all_courses, excluded_courses, course_index + 1) <= 2 THEN 0
  ELSE 1

\* mutant: the 0.5 titles are looked for inside the course name
math_score_substring(course_name) ==
  LET high_value_courses == << Calculus_I_H, AP_Calculus_AB, Calculus_II_H, Statistics_H,
                               Multivariable_Calculus_H >>
      medium_value_courses == << Algebra_II_H, Pre_Calculus_H, Calculus >>
  IN IF InList(course_name, high_value_courses) THEN 2
     ELSE IF \E i \in 1..Len(medium_value_courses) :
               Contains(course_name, medium_value_courses[i]) THEN 1
     ELSE 0

\* Lines 1006-1028, in halves.
math_score(course_name) ==
  LET high_value_courses == << Calculus_I_H, AP_Calculus_AB, Calculus_II_H, Statistics_H,
                               Multivariable_Calculus_H >>
      medium_value_courses == << Algebra_II_H, Pre_Calculus_H, Calculus >>
  IN IF InList(course_name, high_value_courses) THEN 2
     ELSE IF InList(course_name, medium_value_courses) THEN 1
     ELSE 0

\* mutant: the Anatomy & Physiology test comes first and is a prefix test
science_score_anatomy_first(course_name) ==
  IF startswith(course_name, Anatomy_and_Physiology) THEN 1
  ELSE IF Contains(course_name, Honors_marker) THEN 2
  ELSE 0

\* Lines 1030-1038, in halves.
science_score(course_name) ==
  IF Contains(course_name, Honors_marker) THEN 2
  ELSE IF course_name = Anatomy_and_Physiology THEN 1
  ELSE 0

\* Lines 1040-1059, in halves.
computer_science_score(course_name) ==
  LET high_value_courses == << Computer_Science_II_H, Advanced_Computer_Science_H >>
      medium_value_courses == << Advanced_Topics_in_Computer_Science_H,
                                 Data_Structures_and_Algorithms_H, Software_Engineering_H >>
  IN IF InList(course_name, high_value_courses) THEN 2
     ELSE IF InList(course_name, medium_value_courses) THEN 1
     ELSE 0

\* mutant: the 0.5 rule is tested first and without its "IV (H)" exception
world_languages_score_level_first(course_name) ==
  IF Contains(course_name, III_H) \/ Contains(course_name, Space_IV) THEN 1
  ELSE IF Contains(course_name, IV_H) \/ Contains(course_name, V_H) THEN 2
  ELSE 0

\* Lines 1061-1071, in halves.
world_languages_score(course_name) ==
  IF Contains(course_name, IV_H) \/ Contains(course_name, V_H) THEN 2
  ELSE IF \/ Contains(course_name, III_H)
          \/ (Contains(course_name, Space_IV) /\ ~Contains(course_name, IV_H))
    THEN 1
  ELSE 0

\* mutant: the Science rule is the final else
calculate_course_score_science_last(dept, course_name, index, courses) ==
  IF dept = "Literature" THEN literature_score(course_name, index, courses)
  ELSE IF dept = "History/Social Science" THEN history_score(course_name, index, courses)
  ELSE IF dept = "Math" THEN math_score(course_name)
  ELSE IF dept = "Computer Science and Engineering" THEN computer_science_score(course_name)
  ELSE IF dept = "World Languages" THEN world_languages_score(course_name)
  ELSE science_score(course_name)

\* Lines 967-1074, in halves.
calculate_course_score(dept, course_name, index, courses) ==
  IF dept = "Literature" THEN literature_score(course_name, index, courses)
  ELSE IF dept = "History/Social Science" THEN history_score(course_name, index, courses)
  ELSE IF dept = "Math" THEN math_score(course_name)
  ELSE IF dept = "Science" THEN science_score(course_name)
  ELSE IF dept = "Computer Science and Engineering" THEN computer_science_score(course_name)
  ELSE IF dept = "World Languages" THEN world_languages_score(course_name)
  ELSE 0

(* ---- the curriculum rating ---- *)
\* Lines 597-600 and 1184-1187: the scores of courses[1..n] added up, in halves.
RECURSIVE BucketTotal(_, _, _)
BucketTotal(dept, courses, n) ==
  IF n = 0 THEN 0
  ELSE BucketTotal(dept, courses, n - 1)
         + calculate_course_score(dept, courses[n], n - 1, courses)

\* Lines 604 and 1190: sum(dept_totals.values()) after the loop over departments[1..n]
\* has filled dept_totals; a dictionary holds a department once.
RECURSIVE SumTotals(_, _, _)
SumTotals(departments, by_dept, n) ==
  IF n = 0 THEN 0
  ELSE SumTotals(departments, by_dept, n - 1)
         + (IF \E k \in 1..(n - 1) : departments[k] = departments[n] THEN 0
            ELSE LET courses == Get(by_dept, departments[n], << >>)
                 IN BucketTotal(departments[n], courses, Len(courses)))

\* Lines 582-604 of _populate_student_sheet.
populate_curriculum_rating(by_dept) ==
  LET departments == SelectSeq(config.primary_departments,
                               LAMBDA dept : dept \in DOMAIN by_dept)
  IN SumTotals(departments, by_dept, Len(departments))

\* mutant: the totals of top_departments only
summary_curriculum_rating_top_departments(by_dept) ==
  LET departments == SelectSeq(config.primary_departments,
                               LAMBDA dept : dept \in DOMAIN by_dept)
      top_departments == SubSeq(departments, 1, IF Len(departments) < 4
                                                  THEN Len(departments) ELSE 4)
  IN SumTotals(top_departments, by_dept, Len(top_departments))

\* Lines 1176-1190 of _create_summary_sheet.
summary_curriculum_rating(by_dept) ==
  LET departments == SelectSeq(config.primary_departments,
                               LAMBDA dept : dept \in DOMAIN by_dept)
  IN SumTotals(departments, by_dept, Len(departments))

(* ---- the rows of the student sheet ---- *)
\* Line 621: range(10), the course rows of the top section.
TopRows == 10

\* Lines 582-587: the primary departments the student has courses in.
sheet_departments(by_dept) ==
  SelectSeq(config.primary_departments, LAMBDA dept : dept \in DOMAIN by_dept)

\* Line 590: departments[:4].
top_departments(by_dept) ==
  LET departments == sheet_departments(by_dept)
  IN SubSeq(departments, 1, IF Len(departments) < 4 THEN Len(departments) ELSE 4)

\* Line 591: departments[4:].
bottom_departments(by_dept) ==
  LET departments == sheet_departments(by_dept)
  IN SubSeq(departments, 5, Len(departments))

\* Lines 594-601: dept_totals[dept], over the whole bucket.
dept_totals(by_dept, dept) ==
  LET courses == Get(by_dept, dept, << >>)
  IN BucketTotal(dept, courses, Len(courses))

\* Lines 616, 628, 647 and 663: `x if x > 0 else ''`. A score cell is the list of
\* the numbers it shows: none for the empty string.
score_cell(x) == IF x > 0 THEN << x >> ELSE << >>

\* Lines 614-617 and 645-648: the two header cells of every department of the section.
header_row(by_dept, depts) ==
  [k \in 1..Len(depts) |->
     [score |-> score_cell(dept_totals(by_dept, depts[k])), dept |-> depts[k]]]

\* Lines 622-632 and 657-667: row i of a section, two cells for every department;
\* a department with no course at index i leaves both empty.
course_row(by_dept, depts, i) ==
  [k \in 1..Len(depts) |->
     LET courses == Get(by_dept, depts[k], << >>) IN
     IF i < Len(courses)
       THEN [score |-> score_cell(calculate_course_score(depts[k], courses[i + 1],
                                                         i, courses)),
             course |-> courses[i + 1]]
       ELSE [score |-> << >>, course |-> << >>]]

\* Line 652: the longest bucket of the bottom departments.
RECURSIVE max_bottom_courses(_, _, _)
max_bottom_courses(by_dept, depts, n) ==
  IF n = 0 THEN 0
  ELSE LET rest == max_bottom_courses(by_dept, depts, n - 1)
           here == Len(Get(by_dept, depts[n], << >>))
       IN IF here > rest THEN here ELSE rest

\* Lines 604-668: the rows of the student's sheet. Rows 4-13 are always ten; the
\* bottom header and its rows are written only when there are bottom departments.
sheet_data(by_dept) ==
  LET top == top_departments(by_dept)
      bottom == bottom_departments(by_dept)
  IN [ curriculum_rating |-> populate_curriculum_rating(by_dept),
       top_header |-> header_row(by_dept, top),
       top_rows |-> [i \in 1..TopRows |-> course_row(by_dept, top, i - 1)],
       bottom_header |-> IF bottom # << >> THEN header_row(by_dept, bottom) ELSE << >>,
       bottom_rows |-> IF bottom # << >>
                         THEN [i \in 1..max_bottom_courses(by_dept, bottom, Len(bottom)) |->
                                 course_row(by_dept, bottom, i - 1)]
                         ELSE << >> ]

(* ---- the summary columns ---- *)
\* the string 'None' that the three summary functions return
None_string == <<"N","o","n","e">>

\* the smallest number of a set
First(S) == CHOOSE x \in S : \A y \in S : x <= y

\* mutant: the loop runs over the bucket and returns its first course of the hierarchy
get_highest_calculus_math_bucket_order(by_dept) ==
  LET math_courses == Get(by_dept, "Math", << >>)
      calculus_hierarchy == << Multivariable_Calculus_H, Calculus_II_H, Calculus_I_H, Calculus,
                               Pre_Calculus_H, Pre_Calculus, Algebra_II_H, Algebra_II >>
      present == { j \in 1..Len(math_courses) : InList(math_courses[j], calculus_hierarchy) }
  IN IF present = {} THEN None_string ELSE math_courses[First(present)]

\* Lines 1087-1107.
get_highest_calculus_math(by_dept) ==
  LET math_courses == Get(by_dept, "Math", << >>)
      calculus_hierarchy == << Multivariable_Calculus_H, Calculus_II_H, Calculus_I_H, Calculus,
                               Pre_Calculus_H, Pre_Calculus, Algebra_II_H, Algebra_II >>
      present == { k \in 1..Len(calculus_hierarchy) :
                     InList(calculus_hierarchy[k], math_courses) }
  IN IF present = {} THEN None_string ELSE calculus_hierarchy[First(present)]

\* Lines 1109-1148: the outer loop runs over level_hierarchy, the inner loop over
\* the bucket; the first (level, course) with `level in course` decides.
get_highest_world_language(by_dept) ==
  LET wl_courses == Get(by_dept, "World Languages", << >>)
      level_hierarchy == << V_H, IV_H, Space_IV, III, Space_II, Space_I >>
      matching(k) == { j \in 1..Len(wl_courses) : Contains(wl_courses[j], level_hierarchy[k]) }
      levels == { k \in 1..Len(level_hierarchy) : matching(k) # {} }
  IN IF levels = {} THEN "None"
     ELSE LET level == level_hierarchy[First(levels)]
              course == wl_courses[First(matching(First(levels)))]
          IN IF level = V_H THEN "V (H)"
             ELSE IF level = IV_H THEN "IV (H)"
             ELSE IF level = Space_IV THEN "IV"
             ELSE IF level = III THEN (IF Contains(course, III_H) THEN "III (H)" ELSE "III")
             ELSE IF level = Space_II THEN (IF Contains(course, II_H) THEN "II (H)" ELSE "II")
             ELSE "I"

\* Lines 1150-1164.
get_additional_math(by_dept) ==
  LET math_courses == Get(by_dept, "Math", << >>)
      has_statistics == \E j \in 1..Len(math_courses) : Contains(math_courses[j], Statistics)
      has_financial == \E j \in 1..Len(math_courses) : Contains(math_courses[j], Financial_Math)
  IN IF has_statistics /\ has_financial THEN "Statistics, Financial Math"
     ELSE IF has_statistics THEN "Statistics"
     ELSE IF has_financial THEN "Financial Math"
     ELSE "None"

(* ---- make_api_request and get_seniors ---- *)
\* Line 72.
base_url == "https://api.sky.blackbaud.com/school"
\* Line 227.
v1_users == "v1/users"
\* Lines 19 and 1461: the role id imported from config; line 383 spells it out.
STUDENT_ROLE_ID == "11821"

\* Lines 199-214: the JSON body of a reply with status 200, and None for any other
\* status. The optional value is a list: empty for None, else holding the body.
make_api_request(reply) == IF reply.status = 200 THEN << reply.json >> ELSE << >>

\* Lines 218-224: the parameters of the first request; role_id is empty for None.
seniors_params(graduation_year, role_id) ==
  IF role_id # << >>
    THEN [grad_year |-> 2025, end_grad_year |-> graduation_year, roles |-> role_id[1]]
    ELSE [grad_year |-> 2025, end_grad_year |-> graduation_year]

\* Lines 238-244: the five keys read with .get().
senior_of(student) ==
  [ id |-> Get(student, "id", None),
    first_name |-> Get(student, "first_name", None),
    last_name |-> Get(student, "last_name", None),
    email |-> Get(student, "email", None),
    grad_year |-> Get(student, "grad_year", None) ]

\* Line 250: next_link.replace(self.base_url + '/', ''). A link is the list of its
\* base and of what follows the slash; a link under another base is left whole.
strip_base_url(next_link) ==
  IF next_link[1] = base_url THEN SubSeq(next_link, 2, Len(next_link)) ELSE next_link

\* mutant: the list is started again with every page
get_seniors_iteration_restarts_list(seniors, endpoint, params, reply) ==
  LET response == make_api_request(reply)
      falsy == IF response = << >> THEN TRUE ELSE DOMAIN response[1] = {}
  IN IF falsy
       THEN [seniors |-> seniors, endpoint |-> endpoint, params |-> params,
             running |-> FALSE]
       ELSE LET json == response[1]
                value == IF "value" \in DOMAIN json THEN json.value ELSE << >>
                next_link == IF "next_link" \in DOMAIN json THEN json.next_link ELSE << >>
                next_endpoint == IF next_link # << >> THEN strip_base_url(next_link)
                                 ELSE << >>
            IN [ seniors |-> [k \in 1..Len(value) |-> senior_of(value[k])],
                 endpoint |-> next_endpoint,
                 params |-> IF next_link # << >> THEN << >> ELSE params,
                 running |-> next_endpoint # << >> ]

\* Lines 230-253: one pass of the while loop. `not response` holds for None and for
\* a body without keys, and leaves the loop (line 234) with endpoint and params as
\* they are; .get('next_link') of a missing key and '' are both falsy, here the
\* empty list. An endpoint or params of None is the empty list, and so is the
\* endpoint '' that ends the loop at line 229.
get_seniors_iteration(seniors, endpoint, params, reply) ==
  LET response == make_api_request(reply)
      falsy == IF response = << >> THEN TRUE ELSE DOMAIN response[1] = {}
  IN IF falsy
       THEN [seniors |-> seniors, endpoint |-> endpoint, params |-> params,
             running |-> FALSE]
       ELSE LET json == response[1]
                value == IF "value" \in DOMAIN json THEN json.value ELSE << >>
                next_link == IF "next_link" \in DOMAIN json THEN json.next_link ELSE << >>
                next_endpoint == IF next_link # << >> THEN strip_base_url(next_link)
                                 ELSE << >>
            IN [ seniors |-> seniors \o [k \in 1..Len(value) |-> senior_of(value[k])],
                 endpoint |-> next_endpoint,
                 params |-> IF next_link # << >> THEN << >> ELSE params,
                 running |-> next_endpoint # << >> ]

\* Lines 218-228 and the first n passes of the loop over the replies of the API.
RECURSIVE get_seniors_passes(_, _, _, _)
get_seniors_passes(graduation_year, role_id, replies, n) ==
  IF n = 0
    THEN [ seniors |-> << >>, endpoint |-> << v1_users >>,
           params |-> << seniors_params(graduation_year, role_id) >>, running |-> TRUE ]
    ELSE LET before == get_seniors_passes(graduation_year, role_id, replies, n - 1)
         IN IF before.running
              THEN get_seniors_iteration(before.seniors, before.endpoint, before.params,
                                         replies[n])
              ELSE before

\* Lines 216-255: the list returned when the API answers with the replies in turn.
get_seniors(graduation_year, role_id, replies) ==
  get_seniors_passes(graduation_year, role_id, replies, Len(replies)).seniors

(* ---- the student-data cache and the limit ---- *)
\* Line 396: json.dump of a string or of None.
json_value(v) == IF v = None THEN << "null" >> ELSE << "string", v >>

\* Line 408: json.load of a string or of null.
python_value(j) == IF j[1] = "null" THEN None ELSE j[2]

\* Line 396: json.dump(students_data, f), the text of the file as JSON values.
json_dump(students_data) ==
  [k \in 1..Len(students_data) |->
     LET student == students_data[k] IN
     [ id |-> json_value(student.id),
       first_name |-> json_value(student.first_name),
       last_name |-> json_value(student.last_name),
       email |-> json_value(student.email),
       grad_year |-> json_value(student.grad_year),
       courses |-> [dept \in DOMAIN student.courses |->
                      [i \in 1..Len(student.courses[dept]) |->
                         << "string", student.courses[dept][i] >>]] ]]

\* Line 408: json.load(f).
json_load(text) ==
  [k \in 1..Len(text) |->
     LET object == text[k] IN
     [ id |-> python_value(object.id),
       first_name |-> python_value(object.first_name),
       last_name |-> python_value(object.last_name),
       email |-> python_value(object.email),
       grad_year |-> python_value(object.grad_year),
       courses |-> [dept \in DOMAIN object.courses |->
                      [i \in 1..Len(object.courses[dept]) |->
                         object.courses[dept][i][2]]] ]]

\* Lines 392-399: the file after save_student_data_cache. open() may raise and
\* leave the file as it is; json.dump may raise after open() has emptied the file;
\* both exceptions are caught and printed.
save_student_data_cache(file, students_data, outcome) ==
  IF outcome = "written" THEN << [valid |-> TRUE, text |-> json_dump(students_data)] >>
  ELSE IF outcome = "dump_failed" THEN << [valid |-> FALSE, text |-> << >>] >>
  ELSE file

\* Lines 401-413: None, the empty list, for a missing file and for a file json.load
\* rejects; else the list holding the loaded data.
load_student_data_cache(file) ==
  IF file = << >> THEN << >>
  ELSE IF ~file[1].valid THEN << >>
  ELSE << json_load(file[1].text) >>

\* Lines 460 and 484: list[:n], with Python's reading of a negative n.
slice_to(list, n) ==
  IF n >= 0 THEN SubSeq(list, 1, IF n < Len(list) THEN n ELSE Len(list))
  ELSE SubSeq(list, 1, IF Len(list) + n > 0 THEN Len(list) + n ELSE 0)

\* mutant: the limit is not applied to the roster
limit_seniors_ignored(list, limit_students) == list

\* Lines 459-460: limit_students is the empty list for None; None and 0 are falsy.
limit_seniors(list, limit_students) ==
  IF limit_students = << >> THEN list
  ELSE IF limit_students[1] = 0 THEN list
  ELSE slice_to(list, limit_students[1])

\* Lines 483-484.
limit_cached(students_data, limit_students) ==
  IF limit_students = << >> THEN students_data
  ELSE IF limit_students[1] = 0 THEN students_data
  ELSE IF Len(students_data) > limit_students[1]
         THEN slice_to(students_data, limit_students[1])
  ELSE students_data

(* ---- bounds ---- *)
\* enrollments returned over all the requests of one get_student_courses call
MaxEnrollments == 3
\* courses in the bucket handed to the scorer
MaxBucket == 6

\* courses in a bucket of a department scored by lookup
MaxLookupBucket == 2

\* requests get_seniors makes before the API stops answering
MaxPages == 3

\* runs of the program
MaxRuns == 3

\* len(school_year_ids), the default of get_student_courses
NumYears == 4

(* ---- inputs: what the enrollment API may return ---- *)
EnrollmentKeys == {"course_title", "block_name", "departments", "dropped"}

\* a dictionary with the given keys
MakeEnrollment(keys, course_title, block_name, departments, dropped) ==
  [k \in keys |->
     CASE k = "course_title" -> course_title
       [] k = "block_name" -> block_name
       [] k = "departments" -> departments
       [] k = "dropped" -> dropped]

KeySets == {EnrollmentKeys} \cup {EnrollmentKeys \ {k} : k \in EnrollmentKeys}

Titles ==
  { AM_Mtg, MT_Tutoring, Teachers_Assistant_Bio, Hist2_Modern_Europe, Eng3_Poetry,
    Social_Psychology_H, Politics_of_Elections_H, Politics_of_Elections_H_quote,
    Calculus, << >> }

BlockNames == { C_Block, AM_Mtg, Ind_Study, << >> }

DepartmentLists ==
  { << >>,
    << [name |-> "Math"] >>,
    << [name |-> "Robotics"] >>,
    << [id |-> 7] >>,
    << [name |-> "Humanities"] >>,
    << [name |-> "Humanities"], [name |-> "History/Social Science"] >>,
    << [name |-> "Humanities"], [id |-> 7] >>,
    << [name |-> "Math"], [name |-> "Humanities"] >> }

Enrollments ==
  { MakeEnrollment(keys, t, b, d, x) :
      keys \in KeySets, t \in Titles, b \in BlockNames, d \in DepartmentLists, x \in {0, 1} }

\* the enrollments of the multi-enrollment fold
FoldEnrollments ==
  { MakeEnrollment(EnrollmentKeys, t, b, d, x) :
      t \in { AM_Mtg, MT_Tutoring, Hist2_Modern_Europe, Social_Psychology_H, Calculus },
      b \in { C_Block, Ind_Study },
      d \in { << [name |-> "Math"] >>, << [name |-> "Humanities"] >>,
              << [name |-> "Humanities"], [name |-> "History/Social Science"] >> },
      x \in {0, 1} }

(* ---- inputs: the buckets handed to the scorer ---- *)
Range(seq) == { seq[i] : i \in 1..Len(seq) }

\* the course titles a bucket of the department is drawn from
Pool(dept) ==
  IF dept = "Literature"
    THEN { US_Literature, World_Literature, Lit_A, Lit_B, Lit_C, Lit_D, Lit_E }
    ELSE { US_History, World_History, US_Literature, Civics, Economics, Ethics }

\* the lists of at most n distinct titles of the pool: a bucket never repeats a title
RECURSIVE Buckets(_, _)
Buckets(pool, n) ==
  IF n = 0 THEN { << >> }
  ELSE LET shorter == Buckets(pool, n - 1) IN
       shorter \cup UNION { { Append(s, t) : t \in pool \ Range(s) } :
                              s \in { x \in shorter : Len(x) = n - 1 } }

\* the course titles a bucket of a department without position rules is drawn from
LookupPool(dept) ==
  CASE dept = "Math" ->
         { Calculus_I_H, AP_Calculus_AB, Calculus_II_H, Statistics_H, Multivariable_Calculus_H,
           Algebra_II_H, Pre_Calculus_H, Calculus, Pre_Calculus, Algebra_II, Statistics,
           Financial_Math }
    [] dept = "Science" ->
         { Biology, Physics, Chemistry_H, Anatomy_and_Physiology, Anatomy_and_Physiology_H }
    [] dept = "Computer Science and Engineering" ->
         { Computer_Science_II_H, Advanced_Computer_Science_H,
           Advanced_Topics_in_Computer_Science_H, Data_Structures_and_Algorithms_H,
           Software_Engineering_H, Computer_Science_I, Robotics_H }
    [] dept = "World Languages" ->
         { Latin_I, Latin_II, Latin_II_H, Latin_III, Latin_III_H, Latin_IV, Latin_IV_H,
           Latin_V, Latin_V_H, Latin_IV_Seminar_H, Sign_Language, AP_Italian }
    [] OTHER ->
         { Studio_Art, Studio_Art_H, AP_Calculus_AB, Anatomy_and_Physiology, Latin_IV_H,
           Advanced_Computer_Science_H, Lit_A }

VARIABLES
  courses_by_dept,  \* get_student_courses: department -> list of titles
  seen_courses,     \* get_student_courses: set of titles
  log,              \* the diagnostics printed so far
  year,             \* how many of school_year_ids have been requested
  response,         \* the response to the current request: "ok", "failed", "none"
  folded,           \* enrollments iterated so far
  enrollment,       \* the loop variable
  rule,             \* the branch the last iteration took
  dept_name,        \* the local dept_name
  original_dept,    \* _apply_department_config: the argument of the last call
  pc,               \* "loop" inside get_student_courses, "done" after its return
  department,       \* _calculate_course_score: the bucket being scored
  all_courses,
  course_index,     \* the next index enumerate() yields
  scores,           \* the scores returned so far, in halves
  total,            \* the running department total, in halves
  responses,        \* the 'value' list the API holds for each school year
  student_sheet,    \* _populate_student_sheet: the rows written to the student's sheet
  student_summaries, \* _create_summary_sheet: the list student_summaries
  seniors,          \* get_seniors: the list seniors
  endpoint,         \* get_seniors: the endpoint of the next request, empty for None
  params,           \* get_seniors: the params of the next request, empty for None
  api_log,          \* the requests get_seniors has made, each with its reply
  returned,         \* what get_seniors has returned; empty while it runs
  cache_file,       \* student_data_cache.json: empty while there is no such file
  run,              \* the last run of export_senior_courses_to_google_sheet
  runs,             \* the runs of the program so far
  cached_from       \* the students_data the last successful save was called with

foldvars == << courses_by_dept, seen_courses, log, year, response, folded, enrollment,
               rule, dept_name, original_dept, pc >>
scorevars == << department, all_courses, course_index, scores, total >>
sheetvars == << student_sheet, student_summaries >>
rostervars == << seniors, endpoint, params, api_log, returned >>
exportvars == << cache_file, run, runs, cached_from >>
vars == << courses_by_dept, seen_courses, log, year, response, folded, enrollment,
           rule, dept_name, original_dept, pc, department, all_courses, course_index, scores,
           total, config, responses, student_sheet, student_summaries,
           seniors, endpoint, params, api_log, returned, cache_file, run, runs,
           cached_from >>

InitFold ==
  /\ courses_by_dept = EmptyDict
  /\ seen_courses = {}
  /\ log = << >>
  /\ year = 0
  /\ response = "none"
  /\ folded = 0
  /\ enrollment = EmptyDict
  /\ rule = "none"
  /\ dept_name = None
  /\ original_dept = None
  /\ pc = "loop"

NoScoring ==
  /\ department = None
  /\ all_courses = << >>
  /\ course_index = 0
  /\ scores = << >>
  /\ total = 0

\* Lines 27-62: the configuration as the source has it.
ShippedConfig == config = DEPARTMENT_CONFIG

\* The responses are chosen as they are read.
NoResponses == responses = << >>

\* No sheet has been written.
NoSheets ==
  /\ student_sheet = << >>
  /\ student_summaries = << >>

\* Lines 218-228: get_seniors(2026, None) has made no request.
NoRoster ==
  /\ seniors = << >>
  /\ endpoint = << v1_users >>
  /\ params = << seniors_params(2026, << >>) >>
  /\ api_log = << >>
  /\ returned = << >>

\* The program has not been run and there is no cache file.
NoExport ==
  /\ cache_file = << >>
  /\ run = << >>
  /\ runs = 0
  /\ cached_from = << >>

Init == InitFold /\ NoScoring /\ ShippedConfig /\ NoResponses /\ NoSheets /\ NoRoster /\ NoExport

\* Lines 265-270: the next school year is requested; the request fails
\* (make_api_request returns None) or answers with a 'value' list.
FetchYear ==
  /\ pc = "loop"
  /\ year < NumYears
  /\ year' = year + 1
  /\ \E r \in {"ok", "failed"} : response' = r
  /\ UNCHANGED << courses_by_dept, seen_courses, log, folded, enrollment, rule, dept_name,
                  original_dept, pc >>
  /\ UNCHANGED scorevars
  /\ UNCHANGED << config, responses, student_sheet, student_summaries >>
  /\ UNCHANGED rostervars
  /\ UNCHANGED exportvars

\* Lines 271-324: one iteration of the loop over response['value'].
FoldEnrollment(e) ==
  /\ pc = "loop"
  /\ response = "ok"
  /\ folded < MaxEnrollments
  /\ folded' = folded + 1
  /\ enrollment' = e
  /\ LET r == IterateEnrollment(courses_by_dept, seen_courses, e) IN
     /\ courses_by_dept' = r.courses_by_dept
     /\ seen_courses' = r.seen_courses
     /\ rule' = r.rule
     /\ log' = log \o r.printed
     /\ dept_name' = IF r.classified = << >> THEN dept_name ELSE r.classified[1].dept_name
     /\ original_dept' = IF r.classified = << >> \/ r.classified[1].configured = << >>
                           THEN original_dept
                           ELSE r.classified[1].configured[1]
  /\ UNCHANGED << year, response, pc >>
  /\ UNCHANGED scorevars
  /\ UNCHANGED << config, responses, student_sheet, student_summaries >>
  /\ UNCHANGED rostervars
  /\ UNCHANGED exportvars

\* Line 326: every school year has been requested and the last response is exhausted.
Return ==
  /\ pc = "loop"
  /\ year = NumYears
  /\ pc' = "done"
  /\ UNCHANGED << courses_by_dept, seen_courses, log, year, response, folded, enrollment,
                  rule, dept_name, original_dept >>
  /\ UNCHANGED scorevars
  /\ UNCHANGED << config, responses, student_sheet, student_summaries >>
  /\ UNCHANGED rostervars
  /\ UNCHANGED exportvars

Next ==
  \/ FetchYear
  \/ \E e \in FoldEnrollments : FoldEnrollment(e)
  \/ Return

Spec == Init /\ [][Next]_vars

\* A profile returned by get_student_courses holds the bucket all_courses for
\* department; _populate_student_sheet is about to score it.
InitScore ==
  /\ department \in { "Literature", "History/Social Science" }
  /\ all_courses \in Buckets(Pool(department), MaxBucket) \ { << >> }
  /\ course_index = 0
  /\ scores = << >>
  /\ total = 0
  /\ courses_by_dept = [d \in { department } |-> all_courses]
  /\ seen_courses = Range(all_courses)
  /\ log = << >>
  /\ year = NumYears
  /\ response = "ok"
  /\ folded = 0
  /\ enrollment = EmptyDict
  /\ rule = "none"
  /\ dept_name = None
  /\ original_dept = None
  /\ pc = "done"
  /\ ShippedConfig /\ NoResponses /\ NoSheets /\ NoRoster /\ NoExport

\* Lines 598-600: one iteration of enumerate(courses).
ScoreCourse ==
  /\ pc = "done"
  /\ department \in DOMAIN courses_by_dept
  /\ course_index < Len(all_courses)
  /\ LET score == calculate_course_score(department, all_courses[course_index + 1],
                                         course_index, all_courses)
     IN /\ scores' = Append(scores, score)
        /\ total' = total + score
  /\ course_index' = course_index + 1
  /\ UNCHANGED << department, all_courses >>
  /\ UNCHANGED foldvars
  /\ UNCHANGED << config, responses, student_sheet, student_summaries >>
  /\ UNCHANGED rostervars
  /\ UNCHANGED exportvars

NextScore == ScoreCourse

\* A returned profile holds one bucket and nothing has been scored yet.
ProfileToScore ==
  /\ course_index = 0
  /\ scores = << >>
  /\ total = 0
  /\ courses_by_dept = [d \in { department } |-> all_courses]
  /\ seen_courses = Range(all_courses)
  /\ log = << >>
  /\ year = NumYears
  /\ response = "ok"
  /\ folded = 0
  /\ enrollment = EmptyDict
  /\ rule = "none"
  /\ dept_name = None
  /\ original_dept = None
  /\ pc = "done"
  /\ ShippedConfig /\ NoResponses /\ NoSheets /\ NoRoster /\ NoExport

\* The bucket belongs to a department scored by lookup or not scored at all; a
\* profile written by get_student_courses has primary departments only, and the
\* scorer is also called on a department outside the list ("Robotics").
InitLookup ==
  /\ department \in { "Math", "Science", "Computer Science and Engineering",
                       "World Languages", "Fine Arts", "Other", "Robotics" }
  /\ all_courses \in Buckets(LookupPool(department), MaxLookupBucket) \ { << >> }
  /\ ProfileToScore

SpecLookup == InitLookup /\ [][NextScore]_vars

\* every department the scorer can be called with
SpecAllScores == (InitScore \/ InitLookup) /\ [][NextScore]_vars

SpecScore == InitScore /\ [][NextScore]_vars

\* The classification of every combination of title, block label, department list
\* and missing field as the first enrollment of a student, and the enrollment
\* that follows it.
NextClassify ==
  \/ FetchYear
  \/ \E e \in Enrollments : folded = 0 /\ FoldEnrollment(e)
  \/ \E e \in FoldEnrollments : folded = 1 /\ FoldEnrollment(e)
  \/ Return

SpecClassify == Init /\ [][NextClassify]_vars

(* ---- the classifier under an edited configuration ---- *)
\* DEPARTMENT_CONFIG with its two tables filled in as the comments of lines 55-60
\* suggest: a department renamed, a department mapped to a column outside the
\* primary list ('STEM'), and courses given a column of their own.
EditedConfig ==
  [ DEPARTMENT_CONFIG EXCEPT
      !.department_remapping =
         [k \in { "Robotics", "Math" } |->
            IF k = "Robotics" THEN "Computer Science and Engineering" ELSE "STEM"],
      !.course_overrides =
         [k \in { Hist2_Modern_Europe, Calculus, Social_Psychology_H } |->
            IF k = Hist2_Modern_Europe THEN "Fine Arts"
            ELSE IF k = Calculus THEN "Science"
            ELSE "STEM"] ]

\* Lines 27-62 and 259-263: the configuration is the shipped one or the edited one.
InitConfig ==
  /\ InitFold /\ NoScoring /\ NoResponses /\ NoSheets /\ NoRoster /\ NoExport
  /\ config \in { DEPARTMENT_CONFIG, EditedConfig }

SpecConfig == InitConfig /\ [][NextClassify]_vars

(* ---- get_student_courses over the responses of the school years ---- *)
\* the enrollments the API holds: a course in a lettered block, the same title in a
\* block without a letter, the same title dropped, and a course with a prefix
YearEnrollments ==
  { MakeEnrollment(EnrollmentKeys, Calculus, C_Block, << [name |-> "Math"] >>, 0),
    MakeEnrollment(EnrollmentKeys, Calculus, Ind_Study, << [name |-> "Math"] >>, 0),
    MakeEnrollment(EnrollmentKeys, Calculus, C_Block, << [name |-> "Math"] >>, 1),
    MakeEnrollment(EnrollmentKeys, Hist2_Modern_Europe, C_Block,
                   << [name |-> "Humanities"], [name |-> "History/Social Science"] >>, 0) }

\* the lists of at most n enrollments
RECURSIVE ValueLists(_)
ValueLists(n) ==
  IF n = 0 THEN { << >> }
  ELSE LET shorter == ValueLists(n - 1) IN
       shorter \cup { Append(s, e) : s \in { x \in shorter : Len(x) = n - 1 },
                                     e \in YearEnrollments }

\* the 'value' lists of y school years that hold at most n enrollments together
RECURSIVE YearResponses(_, _)
YearResponses(y, n) ==
  IF y = 0 THEN { << >> }
  ELSE UNION { { Append(r, s) : r \in YearResponses(y - 1, n - Len(s)) } : s \in ValueLists(n) }

\* the enrollments of the school years before the current one
RECURSIVE FoldedBefore(_)
FoldedBefore(y) == IF y <= 1 THEN 0 ELSE FoldedBefore(y - 1) + Len(responses[y - 1])

\* the current response has been iterated to its end
Exhausted ==
  IF year = 0 THEN TRUE ELSE folded = FoldedBefore(year) + Len(responses[year])

\* Lines 259-263 with the data of the school years.
InitYears ==
  /\ InitFold /\ NoScoring /\ ShippedConfig /\ NoSheets /\ NoRoster /\ NoExport
  /\ responses \in YearResponses(NumYears, MaxEnrollments)

\* Lines 265-270: the request for the next school year, made once the loop over the
\* current response has ended; a failed request counts as a year without enrollments.
FetchNextYear ==
  /\ Exhausted
  /\ FetchYear
  /\ response' = "failed" => responses[year'] = << >>

\* Lines 271-324: the loop takes the next enrollment of the current response.
IterateNextEnrollment ==
  /\ year >= 1
  /\ ~Exhausted
  /\ FoldEnrollment(responses[year][folded - FoldedBefore(year) + 1])

\* Line 326, after the last response has been iterated to its end.
ReturnProfile ==
  /\ Exhausted
  /\ Return

NextYears ==
  \/ FetchNextYear
  \/ IterateNextEnrollment
  \/ ReturnProfile

SpecYears == InitYears /\ [][NextYears]_vars

\* the dictionary and the set after the loop has iterated list[1..n]
RECURSIVE IterateAll(_, _, _, _)
IterateAll(by_dept, seen, list, n) ==
  IF n = 0 THEN [courses_by_dept |-> by_dept, seen_courses |-> seen]
  ELSE LET before == IterateAll(by_dept, seen, list, n - 1)
           r == IterateEnrollment(before.courses_by_dept, before.seen_courses, list[n])
       IN [courses_by_dept |-> r.courses_by_dept, seen_courses |-> r.seen_courses]

\* the responses of school_year_ids[1..n] one after the other
RECURSIVE ValuesInOrder(_, _)
ValuesInOrder(school_year_ids, n) ==
  IF n = 0 THEN << >>
  ELSE ValuesInOrder(school_year_ids, n - 1) \o responses[school_year_ids[n]]

\* Lines 257-326: the dictionary get_student_courses returns for school_year_ids, a
\* list of indices into responses.
get_student_courses(school_year_ids) ==
  LET list == ValuesInOrder(school_year_ids, Len(school_year_ids))
  IN IterateAll(EmptyDict, {}, list, Len(list)).courses_by_dept

(* ---- from the fold to the scorer ---- *)
\* enrollments that fill the Math and the History/Social Science buckets: two Math
\* courses, three history courses, an excluded history title and a dropped course
OrderEnrollments ==
  { MakeEnrollment(EnrollmentKeys, Calculus, C_Block, << [name |-> "Math"] >>, 0),
    MakeEnrollment(EnrollmentKeys, Calculus, C_Block, << [name |-> "Math"] >>, 1),
    MakeEnrollment(EnrollmentKeys, Statistics_H, C_Block, << [name |-> "Math"] >>, 0),
    MakeEnrollment(EnrollmentKeys, Hist2_Modern_Europe, C_Block,
                   << [name |-> "Humanities"], [name |-> "History/Social Science"] >>, 0),
    MakeEnrollment(EnrollmentKeys, Civics, C_Block,
                   << [name |-> "Humanities"], [name |-> "History/Social Science"] >>, 0),
    MakeEnrollment(EnrollmentKeys, Economics, C_Block,
                   << [name |-> "History/Social Science"] >>, 0),
    MakeEnrollment(EnrollmentKeys, US_History, C_Block,
                   << [name |-> "History/Social Science"] >>, 0) }

\* Lines 585-587 and 595-597: the loop over departments takes the next primary
\* department of the profile, once the loop over the courses of the one before has
\* ended, and sets total to 0.
NextDepartment ==
  /\ pc = "done"
  /\ course_index = Len(all_courses)
  /\ LET departments == SelectSeq(config.primary_departments,
                                  LAMBDA dept : dept \in DOMAIN courses_by_dept)
         before == { k \in 1..Len(departments) : departments[k] = department }
         taken == IF department = None THEN 0
                  ELSE IF before = {} THEN Len(departments)
                  ELSE First(before)
     IN /\ taken < Len(departments)
        /\ department' = departments[taken + 1]
        /\ all_courses' = Get(courses_by_dept, departments[taken + 1], << >>)
  /\ course_index' = 0
  /\ scores' = << >>
  /\ total' = 0
  /\ UNCHANGED foldvars
  /\ UNCHANGED << config, responses, student_sheet, student_summaries >>
  /\ UNCHANGED rostervars
  /\ UNCHANGED exportvars

NextOrder ==
  \/ FetchYear
  \/ \E e \in OrderEnrollments : FoldEnrollment(e)
  \/ Return
  \/ NextDepartment
  \/ ScoreCourse

\* The fold followed by the scoring of its profile; and the scoring of the longer
\* buckets a fold of more enrollments returns.
SpecOrder == (Init \/ InitScore \/ InitLookup) /\ [][NextOrder]_vars

(* ---- the sheets of one student ---- *)
\* buckets a returned profile holds for the department
SampleBuckets(dept) ==
  CASE dept = "Literature" ->
         { << Lit_A >>, << Lit_A, US_Literature, Lit_B, Lit_C, Lit_D, Lit_E >>,
           << Lit_A, US_Literature, Lit_B, World_Literature, Lit_C, Lit_D, Lit_E,
              Eng3_Poetry, Lit_F, Lit_G, Lit_H >> }
    [] dept = "History/Social Science" ->
         { << US_History, World_History >>, << Civics, US_History, Economics, Ethics >> }
    [] dept = "Math" ->
         { << Algebra_II, Pre_Calculus_H >>, << Calculus_I_H, Statistics, Calculus_II_H >> }
    [] dept = "Science" ->
         { << Biology, Physics >>, << Chemistry_H, Anatomy_and_Physiology >> }
    [] dept = "Computer Science and Engineering" ->
         { << Computer_Science_I, Computer_Science_II_H >> }
    [] dept = "World Languages" ->
         { << Latin_I, Latin_II >>, << Latin_III_H, Latin_IV_H >> }
    [] dept = "Fine Arts" ->
         { << Studio_Art, Studio_Art_H >> }
    [] OTHER ->
         { << Teachers_Assistant_Bio, Sign_Language >> }

\* the profiles over the first n primary departments, each department absent or
\* holding one of its buckets
RECURSIVE Profiles(_)
Profiles(n) ==
  IF n = 0 THEN { EmptyDict }
  ELSE LET dept == DEPARTMENT_CONFIG.primary_departments[n] IN
       Profiles(n - 1)
         \cup { [d \in DOMAIN p \cup { dept } |-> IF d = dept THEN b ELSE p[d]] :
                  p \in Profiles(n - 1), b \in SampleBuckets(dept) }

\* a profile with one bucket, in every order of its courses
SingleBucketProfiles(dept) ==
  { [d \in { dept } |-> b] : b \in Buckets(LookupPool(dept), MaxLookupBucket) \ { << >> } }

\* get_student_courses has returned the profile of a student (line 468) and no
\* sheet has been written.
InitSummary ==
  /\ courses_by_dept \in Profiles(Len(DEPARTMENT_CONFIG.primary_departments))
                           \cup SingleBucketProfiles("Math")
                           \cup SingleBucketProfiles("World Languages")
  /\ seen_courses = UNION { Range(courses_by_dept[d]) : d \in DOMAIN courses_by_dept }
  /\ log = << >>
  /\ year = NumYears
  /\ response = "ok"
  /\ folded = 0
  /\ enrollment = EmptyDict
  /\ rule = "none"
  /\ dept_name = None
  /\ original_dept = None
  /\ pc = "done"
  /\ NoScoring /\ ShippedConfig /\ NoResponses /\ NoSheets /\ NoRoster /\ NoExport

\* Lines 553 and 568-668: the rows of the student's own sheet are assembled.
PopulateStudentSheet ==
  /\ pc = "done"
  /\ student_sheet = << >>
  /\ student_sheet' = << sheet_data(courses_by_dept) >>
  /\ UNCHANGED << student_summaries, config, responses >>
  /\ UNCHANGED rostervars
  /\ UNCHANGED exportvars
  /\ UNCHANGED foldvars
  /\ UNCHANGED scorevars

\* Lines 560 and 1170-1200: after the student sheets, the student's summary entry.
CreateSummarySheet ==
  /\ pc = "done"
  /\ student_sheet # << >>
  /\ student_summaries = << >>
  /\ student_summaries' =
       << [ curriculum_rating |-> summary_curriculum_rating(courses_by_dept),
            highest_math |-> get_highest_calculus_math(courses_by_dept),
            highest_language |-> get_highest_world_language(courses_by_dept),
            additional_math |-> get_additional_math(courses_by_dept) ] >>
  /\ UNCHANGED << student_sheet, config, responses >>
  /\ UNCHANGED rostervars
  /\ UNCHANGED exportvars
  /\ UNCHANGED foldvars
  /\ UNCHANGED scorevars

\* Lines 563-565: a Sheets request raises HttpError; _create_sheet_with_tabs prints
\* it and returns None, and nothing more is written.
SheetsHttpError ==
  /\ pc = "done"
  /\ student_summaries = << >>
  /\ pc' = "http_error"
  /\ UNCHANGED << courses_by_dept, seen_courses, log, year, response, folded, enrollment,
                  rule, dept_name, original_dept >>
  /\ UNCHANGED scorevars
  /\ UNCHANGED << config, responses, student_sheet, student_summaries >>
  /\ UNCHANGED rostervars
  /\ UNCHANGED exportvars

NextSummary ==
  \/ PopulateStudentSheet
  \/ CreateSummarySheet
  \/ SheetsHttpError

SpecSummary == InitSummary /\ [][NextSummary]_vars

(* ---- get_seniors over the replies of the API ---- *)
\* users as the API returns them: with a key get_seniors does not read, and with
\* keys missing
Ada ==
  [ id |-> "101", first_name |-> "Ada", last_name |-> "Zhou",
    email |-> "ada@athenian.org", grad_year |-> "2026", host_id |-> "A-101" ]
Ben == [ id |-> "102", first_name |-> "Ben", last_name |-> "Young" ]
Cy ==
  [ id |-> "103", first_name |-> "Cy", last_name |-> "Abel",
    email |-> "cy@athenian.org", grad_year |-> "2026" ]

\* the 'value' list of a page; the API may return a user on two pages
PageValues == { << >>, << Ada >>, << Ben, Cy >>, << Cy, Ada >> }

\* the next_link of a page: '' or a link to a further page of the roster
NextLinks ==
  { << >>, << base_url, "v1/users?marker=2" >>, << base_url, "v1/users?marker=3" >> }

\* the replies to one request: a page with or without 'value' and 'next_link', a
\* body without keys, and the statuses of a rejected and of a failed request
Replies ==
  { [status |-> 200, json |-> [value |-> v, next_link |-> l]] :
      v \in PageValues, l \in NextLinks }
    \cup { [status |-> 200, json |-> [value |-> v]] : v \in PageValues }
    \cup { [status |-> 200, json |-> [next_link |-> l]] : l \in NextLinks }
    \cup { [status |-> st, json |-> EmptyDict] : st \in { 200, 401, 500 } }

\* Lines 216-228: get_seniors(2026, role_id) has been called with the role of the
\* command line or with none.
InitRoster ==
  /\ InitFold /\ NoScoring /\ ShippedConfig /\ NoResponses /\ NoSheets /\ NoExport
  /\ seniors = << >>
  /\ endpoint = << v1_users >>
  /\ \E role_id \in { << >>, << STUDENT_ROLE_ID >> } :
       params = << seniors_params(2026, role_id) >>
  /\ api_log = << >>
  /\ returned = << >>

\* Lines 229-255: one request and what the loop does with its reply; the list is
\* returned when the loop is left.
RequestPage(reply) ==
  /\ returned = << >>
  /\ Len(api_log) < MaxPages
  /\ LET after == get_seniors_iteration(seniors, endpoint, params, reply) IN
       /\ seniors' = after.seniors
       /\ endpoint' = after.endpoint
       /\ params' = after.params
       /\ returned' = IF after.running THEN << >> ELSE << after.seniors >>
  /\ api_log' = Append(api_log, [endpoint |-> endpoint, params |-> params, reply |-> reply])
  /\ UNCHANGED foldvars
  /\ UNCHANGED scorevars
  /\ UNCHANGED << config, responses, student_sheet, student_summaries >>
  /\ UNCHANGED exportvars

NextRoster == \E reply \in Replies : RequestPage(reply)

SpecRoster == InitRoster /\ [][NextRoster]_vars

(* ---- the runs of the export ---- *)
\* rosters: the replies get_seniors receives in one run, the last one ending its loop
SampleRosters ==
  { << [status |-> 200, json |-> [value |-> << Ada >>,
                                  next_link |-> << base_url, "v1/users?marker=2" >>]],
       [status |-> 200, json |-> [value |-> << Ben, Cy >>]] >>,
    << [status |-> 200, json |-> [value |-> << Ben, Cy >>]] >>,
    << [status |-> 200, json |-> [value |-> << Cy >>,
                                  next_link |-> << base_url, "v1/users?marker=2" >>]],
       [status |-> 500, json |-> EmptyDict] >>,
    << [status |-> 401, json |-> EmptyDict] >> }

\* --limit of the command line: absent, or an integer
Limits == { << >>, << 0 >>, << 1 >>, << 2 >>, << -1 >> }

\* Line 468: what get_student_courses returns for the student
StudentCourses(id) ==
  IF id = "101" THEN [d \in { "Math" } |-> << Calculus_I_H, Statistics >>]
  ELSE IF id = "102" THEN [d \in { "Literature", "Other" } |->
                             IF d = "Literature" THEN << Lit_A >> ELSE << Sign_Language >>]
  ELSE EmptyDict

\* Lines 470-477.
student_data_of(senior) ==
  [ id |-> senior.id, first_name |-> senior.first_name, last_name |-> senior.last_name,
    email |-> senior.email, grad_year |-> senior.grad_year,
    courses |-> StudentCourses(senior.id) ]

InitExport ==
  /\ InitFold /\ NoScoring /\ ShippedConfig /\ NoResponses /\ NoSheets /\ NoRoster
  /\ NoExport

\* Lines 436-503: one run of export_senior_courses_to_google_sheet with the
\* arguments of the command line. The run loads the cache unless reload; without
\* loaded data it authenticates, tests the authentication with one request, fetches
\* the roster, applies the limit, asks NumYears times for the enrollments of every
\* student left and saves the cache; with loaded data it applies the limit to
\* them. The data are then handed to _create_sheet_with_tabs.
ExportRun(reload, limit_students, authenticated, tested, replies, outcome, created) ==
  /\ runs < MaxRuns
  /\ runs' = runs + 1
  /\ LET loaded == IF reload THEN << >> ELSE load_student_data_cache(cache_file)
         roster == get_seniors(2026, << STUDENT_ROLE_ID >>, replies)
         limited == limit_seniors(roster, limit_students)
         fetched == [k \in 1..Len(limited) |-> student_data_of(limited[k])]
     IN IF loaded # << >>
          THEN /\ run' = << [ reload |-> reload, limit_students |-> limit_students,
                              from_cache |-> TRUE, authentications |-> 0,
                              api_requests |-> 0, roster |-> << >>,
                              students_data |-> limit_cached(loaded[1], limit_students),
                              result |-> IF created THEN "spreadsheet_id" ELSE "None" ] >>
               /\ UNCHANGED << cache_file, cached_from >>
          ELSE IF ~authenticated
          THEN /\ run' = << [ reload |-> reload, limit_students |-> limit_students,
                              from_cache |-> FALSE, authentications |-> 1,
                              api_requests |-> 0, roster |-> << >>,
                              students_data |-> << >>, result |-> "False" ] >>
               /\ UNCHANGED << cache_file, cached_from >>
          ELSE IF ~tested
          THEN /\ run' = << [ reload |-> reload, limit_students |-> limit_students,
                              from_cache |-> FALSE, authentications |-> 1,
                              api_requests |-> 1, roster |-> << >>,
                              students_data |-> << >>, result |-> "False" ] >>
               /\ UNCHANGED << cache_file, cached_from >>
          ELSE /\ run' = << [ reload |-> reload, limit_students |-> limit_students,
                              from_cache |-> FALSE, authentications |-> 1,
                              api_requests |-> 1 + Len(replies) + NumYears * Len(fetched),
                              roster |-> roster,
                              students_data |-> fetched,
                              result |-> IF created THEN "spreadsheet_id" ELSE "None" ] >>
               /\ cache_file' = save_student_data_cache(cache_file, fetched, outcome)
               /\ cached_from' = IF outcome = "written" THEN << fetched >>
                                 ELSE IF outcome = "dump_failed" THEN << >>
                                 ELSE cached_from
  /\ UNCHANGED foldvars
  /\ UNCHANGED scorevars
  /\ UNCHANGED << config, responses, student_sheet, student_summaries >>
  /\ UNCHANGED rostervars

NextExport ==
  \E reload \in BOOLEAN, limit_students \in Limits, authenticated \in BOOLEAN,
     tested \in BOOLEAN, replies \in SampleRosters,
     outcome \in { "written", "open_failed", "dump_failed" }, created \in BOOLEAN :
    ExportRun(reload, limit_students, authenticated, tested, replies, outcome, created)

SpecExport == InitExport /\ [][NextExport]_vars

(* ======================= properties ======================= *)

\* the eight canonical departments
CanonicalDepartments ==
  { "Literature", "History/Social Science", "Math", "Science",
    "Computer Science and Engineering", "World Languages", "Fine Arts", "Other" }

\* the branches of the loop body that choose a department
PrefixRules == { "special_prefix" }
ListRules == { "no_departments", "humanities_second", "humanities_hardcoded",
               "humanities_error", "first_department" }
ClassifiedRules == PrefixRules \cup { "block_gate" } \cup ListRules

\* every (department, index) position of the profile
Positions ==
  UNION { { << d, i >> : i \in 1..Len(courses_by_dept[d]) } : d \in DOMAIN courses_by_dept }

\* the titles of the profile
ProfileTitles == { courses_by_dept[p[1]][p[2]] : p \in Positions }

\* the title of the enrollment just iterated sits last in the bucket dept
PlacedIn(dept) ==
  /\ dept \in DOMAIN courses_by_dept
  /\ Len(courses_by_dept[dept]) > 0
  /\ courses_by_dept[dept][Len(courses_by_dept[dept])] = enrollment.course_title

\* a title of the skip list, or one that begins with "MT:"
SkipListed(t) ==
  \/ t \in { Athenian_Wilderness_Experience, College_Counseling, Community_Service,
             AM_Mtg, Grade_Dean, US_Advisory }
  \/ (Len(t) >= 3 /\ t[1] = "M" /\ t[2] = "T" /\ t[3] = ":")

\* the title begins with word followed by a digit
WordThenDigit(word, t) ==
  /\ Len(t) > Len(word)
  /\ SubSeq(t, 1, Len(word)) = word
  /\ t[Len(word) + 1] \in {"0", "1", "2", "3", "4", "5", "6", "7", "8", "9"}

\* the label holds none of the letters A to G
NoLetterAtoG(block_name) ==
  \A i \in 1..Len(block_name) : block_name[i] \notin {"A", "B", "C", "D", "E", "F", "G"}

\* the block label of the enrollment just iterated ('' when the field is absent)
BlockLabel == IF "block_name" \in DOMAIN enrollment THEN enrollment.block_name ELSE << >>

\* the department list of the enrollment just iterated ([] when the field is absent)
DepartmentList == IF "departments" \in DOMAIN enrollment THEN enrollment.departments ELSE << >>

\* the enrollment just iterated is not dropped, has a title, is not a repetition and
\* its title is not skip-listed
Kept ==
  /\ "dropped" \in DOMAIN enrollment
  /\ enrollment.dropped = 0
  /\ "course_title" \in DOMAIN enrollment
  /\ enrollment.course_title # << >>
  /\ ~SkipListed(enrollment.course_title)
  /\ rule # "duplicate"

\* ... and its title has none of the special prefixes
HasSpecialPrefix(t) ==
  \/ (Len(t) >= Len(Teachers_Assistant)
        /\ SubSeq(t, 1, Len(Teachers_Assistant)) = Teachers_Assistant)
  \/ WordThenDigit(Hist, t)
  \/ WordThenDigit(Eng, t)

KeptNoPrefix == Kept /\ ~HasSpecialPrefix(enrollment.course_title)

\* C1: every course title occurs at most once in the whole profile: never twice in
\* one bucket and never in two buckets.
C1_NoDuplicateTitle ==
  \A p, q \in Positions :
    courses_by_dept[p[1]][p[2]] = courses_by_dept[q[1]][q[2]] => p = q

\* C1 witness: a second enrollment of a title already in the profile came with a later
\* school year and a block label that would have sent it to another department.
C1_Witness ==
  /\ rule = "duplicate"
  /\ year >= 2
  /\ enrollment.course_title \in ProfileTitles
  /\ \E d \in DOMAIN courses_by_dept :
       /\ InList(enrollment.course_title, courses_by_dept[d])
       /\ Classify(enrollment, enrollment.course_title).dept_name # d

\* C2: no title of the skip list, and no title with a skip prefix, is in any bucket.
C2_SkipPermanence ==
  \A t \in ProfileTitles : ~SkipListed(t)

\* C2 witness: a skip-listed title was enrolled a second time, in a later year, while
\* the profile already holds other courses.
C2_Witness ==
  /\ rule = "duplicate"
  /\ year >= 2
  /\ SkipListed(enrollment.course_title)
  /\ enrollment.course_title \in seen_courses
  /\ ProfileTitles # {}

\* C3: an enrollment that is classified gets one of the eight canonical departments
\* and is placed in that bucket, and every key of the profile is canonical.
C3_Totality ==
  /\ DOMAIN courses_by_dept \subseteq CanonicalDepartments
  /\ Kept => rule \in ClassifiedRules /\ dept_name \in CanonicalDepartments /\ PlacedIn(dept_name)
  /\ ~Kept => rule \notin ClassifiedRules
  /\ (~Kept /\ folded <= 1) => courses_by_dept = EmptyDict

\* C3 witness: a department outside every table ("Robotics") became Other.
C3_Witness ==
  /\ rule = "first_department"
  /\ DepartmentList = << [name |-> "Robotics"] >>
  /\ dept_name = "Other"
  /\ PlacedIn("Other")

\* C4: a classified title that starts with "Teacher's Assistant", Hist<digit> or
\* Eng<digit> is in Other, History/Social Science or Literature, whatever the block
\* label and the department list.
C4_PrefixOverride ==
  Kept =>
    LET t == enrollment.course_title IN
    /\ (Len(t) >= Len(Teachers_Assistant)
          /\ SubSeq(t, 1, Len(Teachers_Assistant)) = Teachers_Assistant)
         => dept_name = "Other" /\ PlacedIn("Other")
    /\ WordThenDigit(Hist, t)
         => dept_name = "History/Social Science" /\ PlacedIn("History/Social Science")
    /\ WordThenDigit(Eng, t)
         => dept_name = "Literature" /\ PlacedIn("Literature")

\* C4 witness: "Hist2 Modern Europe", block "C Block", departments [] is in
\* History/Social Science.
C4_Witness ==
  /\ "course_title" \in DOMAIN enrollment
  /\ enrollment.course_title = Hist2_Modern_Europe
  /\ BlockLabel = C_Block
  /\ "departments" \in DOMAIN enrollment
  /\ DepartmentList = << >>
  /\ rule = "special_prefix"
  /\ PlacedIn("History/Social Science")

\* the enrollment of scenario E has been classified
ScenarioE ==
  /\ KeptNoPrefix
  /\ BlockLabel = AM_Mtg
  /\ DepartmentList = << [name |-> "Math"] >>

\* C5 as stated: the enrollment of scenario E (block "AM Mtg", departments ["Math"])
\* is classified as Other.
C5_ScenarioE_Other ==
  ScenarioE => dept_name = "Other"

\* C5 amended: the enrollment of scenario E is classified as Math by the department
\* list, because "AM Mtg" contains the letter A and the block gate does not fire.
C5_ScenarioE_Math ==
  ScenarioE => rule = "first_department" /\ dept_name = "Math" /\ PlacedIn("Math")

\* C5 witness: scenario E with the title Calculus.
C5_Witness ==
  /\ ScenarioE
  /\ enrollment.course_title = Calculus
  /\ ~NoLetterAtoG(BlockLabel)
  /\ PlacedIn("Math")

\* C6: for a classified title without a special prefix, a block label with none of
\* the letters A-G gives Other whatever the department list, and the department
\* list decides only when the block label has one of those letters.
C6_BlockGate ==
  /\ (KeptNoPrefix /\ NoLetterAtoG(BlockLabel))
       => rule = "block_gate" /\ dept_name = "Other" /\ PlacedIn("Other")
  /\ (KeptNoPrefix /\ ~NoLetterAtoG(BlockLabel)) => rule \in ListRules
  /\ rule \in ListRules => ~NoLetterAtoG(BlockLabel)
  /\ rule = "block_gate" => NoLetterAtoG(BlockLabel)

\* C6 witness: block "Ind Study" with departments ["Math"] is in Other.
C6_Witness ==
  /\ rule = "block_gate"
  /\ BlockLabel = Ind_Study
  /\ DepartmentList = << [name |-> "Math"] >>
  /\ enrollment.course_title = Calculus
  /\ PlacedIn("Other")

\* the name a department entry carries, None without one
EntryName(entry) == IF "name" \in DOMAIN entry THEN entry.name ELSE None

\* the list rules reached the department list, whose first entry is "Humanities"
HumanitiesFirst ==
  /\ KeptNoPrefix
  /\ ~NoLetterAtoG(BlockLabel)
  /\ Len(DepartmentList) >= 1
  /\ EntryName(DepartmentList[1]) = "Humanities"

\* an error diagnostic for the title has been printed
ErrorPrinted(t) == \E i \in 1..Len(log) : log[i] = [level |-> "ERROR", course_title |-> t]

\* C7: with "Humanities" first in the department list, the chosen department is the
\* second entry's name if there is one; without one it is History/Social Science for
\* the two hardcoded titles; otherwise an error is printed, the department is Other
\* and the loop goes on: the function returns only after the last school year.
C7_Humanities ==
  HumanitiesFirst =>
    LET t == enrollment.course_title
        d == DepartmentList
    IN  /\ (pc = "done" => year = NumYears)
        /\ PlacedIn(dept_name)
        /\ IF Len(d) >= 2
             THEN /\ rule = "humanities_second"
                  /\ original_dept = (IF EntryName(d[2]) = None THEN "Other" ELSE EntryName(d[2]))
                  /\ dept_name = (IF original_dept \in CanonicalDepartments
                                    THEN original_dept ELSE "Other")
                  /\ ~ErrorPrinted(t)
           ELSE IF t \in { Social_Psychology_H, Politics_of_Elections_H_quote }
             THEN /\ rule = "humanities_hardcoded"
                  /\ original_dept = "History/Social Science"
                  /\ dept_name = "History/Social Science"
                  /\ ~ErrorPrinted(t)
           ELSE /\ rule = "humanities_error"
                /\ original_dept = "Other"
                /\ dept_name = "Other"
                /\ ErrorPrinted(t)

\* C7 witness: the first enrollment printed the error and went to Other, and the
\* enrollment after it was resolved through the second department entry.
C7_Witness ==
  /\ HumanitiesFirst
  /\ folded = 2
  /\ Len(log) >= 1
  /\ log[1].level = "ERROR"
  /\ "Other" \in DOMAIN courses_by_dept
  /\ InList(log[1].course_title, courses_by_dept["Other"])
  /\ rule = "humanities_second"
  /\ PlacedIn("History/Social Science")

\* the number of courses among the first i of the bucket that are not in excluded
CountedUpTo(i, excluded) == Cardinality({ j \in 1..i : all_courses[j] \notin excluded })

\* what a position-dependent department gives the course at place i (from 1), in halves
PositionScore(i, excluded, free) ==
  IF all_courses[i] \in excluded THEN 0
  ELSE IF CountedUpTo(i, excluded) <= free THEN 0
  ELSE 1

C9_HistoryScoring ==
  department = "History/Social Science" =>
    \A i \in 1..Len(scores) :
      scores[i] = PositionScore(i, { US_History, World_History }, 2)

\* C9 witness: the third counted course scores 0.5 although it is the fifth of the
\* bucket, and the excluded course after two counted ones still scores 0.
C9_Witness ==
  /\ department = "History/Social Science"
  /\ all_courses = << US_History, Civics, Economics, World_History, Ethics >>
  /\ scores = << 0, 0, 0, 0, 1 >>

\* the number of 0.5 scores in a list of scores
HalfCount(s) == Cardinality({ i \in 1..Len(s) : s[i] = 1 })

\* the scores of a whole bucket
ScoreAll(dept, courses) ==
  [i \in 1..Len(courses) |-> calculate_course_score(dept, courses[i], i - 1, courses)]

Reverse(seq) == [i \in 1..Len(seq) |-> seq[Len(seq) + 1 - i]]

Max(a, b) == IF a >= b THEN a ELSE b

\* C10: once a bucket of distinct titles is scored, the number of 0.5 scores is
\* max(0, n - 2) for History/Social Science and max(0, n - 4) for Literature, n being
\* the number of non-excluded courses of the bucket: the same for every order of the
\* bucket (the buckets range over every order), and the same as for the bucket reversed.
C10_HalfCountInvariant ==
  course_index = Len(all_courses) =>
    LET excluded == IF department = "Literature"
                      THEN { US_Literature, World_Literature }
                      ELSE { US_History, World_History }
        free == IF department = "Literature" THEN 4 ELSE 2
        n == Cardinality(Range(all_courses) \ excluded)
    IN  /\ HalfCount(scores) = Max(0, n - free)
        /\ HalfCount(ScoreAll(department, Reverse(all_courses))) = HalfCount(scores)

\* C10 witness: Ethics, last of three, scores 0.5; first of the reversed bucket it
\* scores 0 and Civics scores 0.5 instead.
C10_Witness ==
  /\ department = "History/Social Science"
  /\ all_courses = << Civics, Economics, Ethics >>
  /\ scores = << 0, 0, 1 >>
  /\ ScoreAll(department, Reverse(all_courses)) = << 0, 0, 1 >>
  /\ Reverse(all_courses)[3] = Civics

\* sub occurs in t as a run of consecutive characters
HasSub(t, sub) ==
  \E i \in 1..Len(t) : i + Len(sub) - 1 <= Len(t) /\ SubSeq(t, i, i + Len(sub) - 1) = sub

\* C11: in a Math bucket the five titles Calculus I (H), AP Calculus AB,
\* Calculus II (H), Statistics (H), Multivariable Calculus (H) score 1.0, the three
\* titles Algebra II (H), Pre-Calculus (H), Calculus score 0.5 and every other title
\* scores 0, wherever the course stands and whatever stands beside it.
C11_MathLookup ==
  department = "Math" =>
    \A i \in 1..Len(scores) :
      scores[i] =
        (IF all_courses[i] \in { Calculus_I_H, AP_Calculus_AB, Calculus_II_H, Statistics_H,
                                 Multivariable_Calculus_H } THEN 2
         ELSE IF all_courses[i] \in { Algebra_II_H, Pre_Calculus_H, Calculus } THEN 1
         ELSE 0)

\* C11 witness: AP Calculus AB scores 1.0 in second place, after a course that
\* scores 0.
C11_Witness ==
  /\ department = "Math"
  /\ all_courses = << Pre_Calculus, AP_Calculus_AB >>
  /\ scores = << 0, 2 >>

\* C12: in a World Languages bucket a title with "IV (H)" or "V (H)" scores 1.0;
\* otherwise a title with "III (H)", or with " IV" and no "IV (H)", scores 0.5; every
\* other title scores 0, wherever the course stands.
C12_WorldLanguagesScoring ==
  department = "World Languages" =>
    \A i \in 1..Len(scores) :
      LET t == all_courses[i] IN
      scores[i] =
        (IF HasSub(t, IV_H) \/ HasSub(t, V_H) THEN 2
         ELSE IF HasSub(t, III_H) \/ (HasSub(t, Space_IV) /\ ~HasSub(t, IV_H)) THEN 1
         ELSE 0)

\* C12 witness: "Latin IV Seminar (H)" scores 0.5 and "Latin IV (H)" after it 1.0.
C12_Witness ==
  /\ department = "World Languages"
  /\ all_courses = << Latin_IV_Seminar_H, Latin_IV_H >>
  /\ scores = << 1, 2 >>

\* C13: in a Science bucket a title with "(H)" scores 1.0, "Anatomy & Physiology (H)"
\* included; the title "Anatomy & Physiology" scores 0.5; every other title scores 0.
C13_ScienceScoring ==
  department = "Science" =>
    \A i \in 1..Len(scores) :
      LET t == all_courses[i] IN
      scores[i] =
        (IF HasSub(t, Honors_marker) THEN 2
         ELSE IF t = Anatomy_and_Physiology THEN 1
         ELSE 0)

\* C13 witness: "Anatomy & Physiology" scored 0.5 and "Anatomy & Physiology (H)" 1.0.
C13_Witness ==
  /\ department = "Science"
  /\ all_courses = << Anatomy_and_Physiology, Anatomy_and_Physiology_H >>
  /\ scores = << 1, 2 >>

\* the departments that have scoring rules
RuledDepartments ==
  { "Literature", "History/Social Science", "Math", "Science",
    "Computer Science and Engineering", "World Languages" }

\* C14: every score is 0, 0.5 or 1.0, none is negative, and every course of Fine
\* Arts, of Other and of a department without rules scores 0.
C14_ScoreRange ==
  /\ \A i \in 1..Len(scores) : scores[i] \in { 0, 1, 2 }
  /\ total >= 0
  /\ department \notin RuledDepartments => \A i \in 1..Len(scores) : scores[i] = 0

\* C14 witness: titles that score in Science and in Math scored 0 in Fine Arts.
C14_Witness ==
  /\ department = "Fine Arts"
  /\ all_courses = << Studio_Art_H, AP_Calculus_AB >>
  /\ scores = << 0, 0 >>

\* the numbers of a sequence added up
RECURSIVE SeqSum(_)
SeqSum(s) == IF s = << >> THEN 0 ELSE Head(s) + SeqSum(Tail(s))

\* the scores of all courses of the buckets D of a profile added up
RECURSIVE AllBucketsSum(_, _)
AllBucketsSum(by_dept, D) ==
  IF D = {} THEN 0
  ELSE LET d == CHOOSE x \in D : TRUE
       IN SeqSum(ScoreAll(d, by_dept[d])) + AllBucketsSum(by_dept, D \ { d })

\* C15: the curriculum rating on the student's own sheet and the one in the
\* student's summary row are equal, and both are the sum over all buckets of the
\* profile of the scores of all courses of the bucket.
C15_CurriculumRating ==
  /\ student_sheet # << >> =>
       student_sheet[1].curriculum_rating
         = AllBucketsSum(courses_by_dept, DOMAIN courses_by_dept)
  /\ student_summaries # << >> =>
       /\ student_summaries[1].curriculum_rating = student_sheet[1].curriculum_rating
       /\ student_summaries[1].curriculum_rating
            = AllBucketsSum(courses_by_dept, DOMAIN courses_by_dept)

\* C15 witness: both ratings are written for a profile of eight buckets, of which
\* Literature, History/Social Science, Math, Science, Computer Science and
\* Engineering and World Languages all contribute.
C15_Witness ==
  /\ student_summaries # << >>
  /\ DOMAIN courses_by_dept = CanonicalDepartments
  /\ courses_by_dept["Literature"] = << Lit_A, US_Literature, Lit_B, Lit_C, Lit_D, Lit_E >>
  /\ courses_by_dept["History/Social Science"] = << Civics, US_History, Economics, Ethics >>
  /\ courses_by_dept["Math"] = << Calculus_I_H, Statistics, Calculus_II_H >>
  /\ courses_by_dept["Science"] = << Chemistry_H, Anatomy_and_Physiology >>
  /\ courses_by_dept["World Languages"] = << Latin_III_H, Latin_IV_H >>
  /\ student_sheet[1].curriculum_rating = 14
  /\ student_summaries[1].curriculum_rating = 14

\* w stands in t as a word: after a space, and before a space or the end
HasWord(t, w) ==
  \E i \in 2..Len(t) :
    /\ t[i - 1] = " "
    /\ i + Len(w) - 1 <= Len(t)
    /\ SubSeq(t, i, i + Len(w) - 1) = w
    /\ (i + Len(w) - 1 = Len(t) \/ t[i + Len(w)] = " ")

\* the level a course title reaches: 6 for V (H), 5 for IV (H), 4 for IV, 3 for III,
\* 2 for II, 1 for I and 0 for a title without a level token
LevelReached(t) ==
  IF HasSub(t, <<" ","V"," ","(","H",")">>) THEN 6
  ELSE IF HasSub(t, <<" ","I","V"," ","(","H",")">>) THEN 5
  ELSE IF HasWord(t, <<"I","V">>) THEN 4
  ELSE IF HasWord(t, <<"I","I","I">>) THEN 3
  ELSE IF HasWord(t, <<"I","I">>) THEN 2
  ELSE IF HasWord(t, <<"I">>) THEN 1
  ELSE 0

\* the labels a level may be reported with
LevelLabels(n) ==
  CASE n = 6 -> { "V (H)" }
    [] n = 5 -> { "IV (H)" }
    [] n = 4 -> { "IV" }
    [] n = 3 -> { "III", "III (H)" }
    [] n = 2 -> { "II", "II (H)" }
    [] n = 1 -> { "I" }
    [] OTHER -> { "None" }

\* the World Languages bucket of the profile
WorldLanguagesBucket == Get(courses_by_dept, "World Languages", << >>)

\* C16 (as claimed): the highest world language of the summary row is the label of
\* the highest level, in the order V (H) > IV (H) > IV > III > II > I, that a course of
\* the World Languages bucket reaches, and "None" when no course has a level token.
\* A bucket with a level V course that is not honors, for which the order has no
\* label, is left aside.
C16_HighestLevelAsClaimed ==
  (/\ student_summaries # << >>
   /\ \A t \in Range(WorldLanguagesBucket) : ~HasWord(t, <<"V">>))
    => \E n \in 0..6 :
         /\ \A t \in Range(WorldLanguagesBucket) : LevelReached(t) <= n
         /\ n > 0 => \E t \in Range(WorldLanguagesBucket) : LevelReached(t) = n
         /\ student_summaries[1].highest_language \in LevelLabels(n)

\* C16: the summary row of a student whose only language course is "Latin IV (H)"
\* says "V (H)".
C16_Witness ==
  /\ student_summaries # << >>
  /\ courses_by_dept = [d \in { "World Languages" } |-> << Latin_IV_H >>]
  /\ student_summaries[1].highest_language = "V (H)"

\* the calculus track, most advanced first
CalculusTrack ==
  << Multivariable_Calculus_H, Calculus_II_H, Calculus_I_H, Calculus, Pre_Calculus_H,
     Pre_Calculus, Algebra_II_H, Algebra_II >>

\* C17: the highest math of the summary row is the first title of the hierarchy
\* that is one of the titles of the Math bucket, whatever the order of the bucket,
\* and "None" when the bucket holds none of them or the profile has no Math bucket.
C17_HighestMath ==
  student_summaries # << >> =>
    LET titles == IF "Math" \in DOMAIN courses_by_dept
                    THEN Range(courses_by_dept["Math"]) ELSE {}
        highest_math == student_summaries[1].highest_math
    IN IF \A k \in 1..Len(CalculusTrack) : CalculusTrack[k] \notin titles
         THEN highest_math = None_string
         ELSE \E k \in 1..Len(CalculusTrack) :
                /\ highest_math = CalculusTrack[k]
                /\ CalculusTrack[k] \in titles
                /\ \A j \in 1..(k - 1) : CalculusTrack[j] \notin titles

\* C17 witness: Calculus II (H) is reported although Pre-Calculus stands before it
\* in the bucket.
C17_Witness ==
  /\ student_summaries # << >>
  /\ "Math" \in DOMAIN courses_by_dept
  /\ courses_by_dept["Math"] = << Pre_Calculus, Calculus_II_H >>
  /\ student_summaries[1].highest_math = Calculus_II_H

\* the enrollment just iterated has no block_name field, or no departments field,
\* or an empty department list
MissingField ==
  \/ "block_name" \notin DOMAIN enrollment
  \/ "departments" \notin DOMAIN enrollment
  \/ enrollment.departments = << >>

\* C19: a kept enrollment without a special prefix whose block_name field is absent,
\* or whose departments field is absent or empty, is placed in Other, by the block
\* gate or by the empty department list, and the loop can iterate the enrollment
\* that follows it.
C19_MissingFields ==
  (KeptNoPrefix /\ MissingField) =>
    /\ rule = (IF NoLetterAtoG(BlockLabel) THEN "block_gate" ELSE "no_departments")
    /\ dept_name = "Other"
    /\ PlacedIn("Other")
    /\ (pc = "loop" /\ response = "ok")
         => ENABLED (\E e \in FoldEnrollments : FoldEnrollment(e))

\* C19 witness: "Calculus" in "C Block" without a departments field is in Other.
C19_Witness ==
  /\ KeptNoPrefix
  /\ "departments" \notin DOMAIN enrollment
  /\ BlockLabel = C_Block
  /\ enrollment.course_title = Calculus
  /\ rule = "no_departments"
  /\ PlacedIn("Other")
  /\ pc = "loop"

\* the orders in which the school years can be processed
YearOrders ==
  { p \in [1..NumYears -> 1..NumYears] : \A i, j \in 1..NumYears : p[i] = p[j] => i = j }

\* the (title, department) pairs of a profile
TitleDepartments(by_dept) ==
  UNION { { << by_dept[d][i], d >> : i \in 1..Len(by_dept[d]) } : d \in DOMAIN by_dept }

\* C18 (as claimed): every order of the school years yields the set of titles and
\* the department of each title that the order of the call yields.
C18_YearOrderAsClaimed ==
  pc = "done" =>
    \A p \in YearOrders :
      TitleDepartments(get_student_courses(p)) = TitleDepartments(courses_by_dept)

\* the enrollments of all school years that are not dropped and carry the title
Undropped(t) ==
  UNION { { responses[y][i] : i \in { j \in 1..Len(responses[y]) :
                                        /\ responses[y][j].dropped = 0
                                        /\ responses[y][j].course_title = t } } :
          y \in 1..NumYears }

\* C18 (amended): every order of the school years yields the same set of titles as
\* the order of the call, and the same department for every title whose enrollments
\* that are not dropped all carry the same block label and the same department list;
\* the profile of the call is the one the loop built step by step.
C18_YearOrderTitles ==
  pc = "done" =>
    /\ get_student_courses([y \in 1..NumYears |-> y]) = courses_by_dept
    /\ \A p \in YearOrders :
         LET pairs == TitleDepartments(get_student_courses(p)) IN
         /\ { td[1] : td \in pairs } = ProfileTitles
         /\ \A td \in pairs :
              (\A e1, e2 \in Undropped(td[1]) :
                 e1.block_name = e2.block_name /\ e1.departments = e2.departments)
                => td \in TitleDepartments(courses_by_dept)

\* C18 witness: "Calculus" is dropped in the first school year, sits in a block
\* without a letter in the second and in "C Block" in the third; the profile has it
\* in Other, and the order that takes the third year first has it in Math.
C18_Witness ==
  /\ pc = "done"
  /\ Len(responses[1]) = 1 /\ responses[1][1].dropped = 1
  /\ Len(responses[2]) = 1 /\ responses[2][1].block_name = Ind_Study
  /\ Len(responses[3]) = 1 /\ responses[3][1].block_name = C_Block
  /\ responses[3][1].dropped = 0
  /\ responses[3][1].course_title = Calculus
  /\ courses_by_dept = [d \in { "Other" } |-> << Calculus >>]
  /\ get_student_courses(<< 3, 2, 1, 4 >>) = [d \in { "Math" } |-> << Calculus >>]

\* the department chosen for the enrollment just iterated by the prefix rule, the
\* block gate or the department list, before any table is applied
ChosenDepartment ==
  LET t == enrollment.course_title IN
  IF Len(t) >= Len(Teachers_Assistant) /\ SubSeq(t, 1, Len(Teachers_Assistant)) = Teachers_Assistant
    THEN "Other"
  ELSE IF WordThenDigit(Hist, t) THEN "History/Social Science"
  ELSE IF WordThenDigit(Eng, t) THEN "Literature"
  ELSE IF NoLetterAtoG(BlockLabel) THEN "Other"
  ELSE ResolveDepartments(enrollment, t).dept_name

\* the override table first, else the remapping table, then Other for a department
\* outside the canonical ones
Remapped(t, chosen) ==
  LET final == IF t \in DOMAIN config.course_overrides THEN config.course_overrides[t]
               ELSE IF chosen \in DOMAIN config.department_remapping
                 THEN config.department_remapping[chosen]
               ELSE chosen
  IN IF final \in CanonicalDepartments THEN final ELSE "Other"

Iterated ==
  LET all == ValuesInOrder([y \in 1..NumYears |-> y], NumYears)
  IN SubSeq(all, 1, folded)

\* the places of Iterated that hold an enrollment of the title that is not dropped
UndroppedAt(t) ==
  { k \in 1..Len(Iterated) : Iterated[k].dropped = 0 /\ Iterated[k].course_title = t }

\* the smallest of a set of numbers
Least(S) == CHOOSE k \in S : \A j \in S : k <= j

\* C21: the department of every title of the profile is the classification of the
\* first enrollment of that title, in iteration order, that is not dropped; a later
\* enrollment of the title is discarded as a duplicate and leaves the department as
\* it is, also when its own block label or department list classifies differently.
C21_FirstOccurrenceDecides ==
  /\ \A td \in TitleDepartments(courses_by_dept) :
       /\ UndroppedAt(td[1]) # {}
       /\ td[2] = Classify(Iterated[Least(UndroppedAt(td[1]))], td[1]).dept_name
  /\ (folded > 0 /\ enrollment.dropped = 0 /\ Least(UndroppedAt(enrollment.course_title)) < folded)
       => rule = "duplicate"

\* C21 witness: "Calculus" came first in "C Block" and then in a block without a
\* letter; it is in Math and the second enrollment was discarded.
C21_Witness ==
  /\ folded = 2
  /\ Iterated[1].course_title = Calculus /\ Iterated[1].block_name = C_Block
  /\ Iterated[1].dropped = 0
  /\ Iterated[2].course_title = Calculus /\ Iterated[2].block_name = Ind_Study
  /\ Iterated[2].dropped = 0
  /\ rule = "duplicate"
  /\ courses_by_dept = [d \in { "Math" } |-> << Calculus >>]

\* C22: an enrollment with dropped not 0 is not classified and its title is not
\* added to the seen titles: the seen titles and the titles of the profile are those
\* of the iterated enrollments that are not dropped, so a title is placed by a later
\* enrollment that is not dropped, and a title dropped every time is absent.
C22_DroppedInvisible ==
  /\ seen_courses = { Iterated[k].course_title :
                        k \in { j \in 1..Len(Iterated) : Iterated[j].dropped = 0 } }
  /\ ProfileTitles = seen_courses
  /\ (folded > 0 /\ enrollment.dropped # 0) => rule = "dropped"

\* C22 witness: "Calculus" was dropped in the first enrollment and is placed in Math
\* by the second.
C22_Witness ==
  /\ folded = 2
  /\ Iterated[1].course_title = Calculus /\ Iterated[1].dropped = 1
  /\ Iterated[2].course_title = Calculus /\ Iterated[2].dropped = 0
  /\ Iterated[2].block_name = C_Block
  /\ rule = "first_department"
  /\ courses_by_dept = [d \in { "Math" } |-> << Calculus >>]

\* the orders of a list of n courses
Orders(n) == { p \in [1..n -> 1..n] : \A i, j \in 1..n : p[i] = p[j] => i = j }

\* the profile with its World Languages bucket in the order p
Reordered(p) ==
  [courses_by_dept EXCEPT !["World Languages"] = [i \in 1..Len(@) |-> @[p[i]]]]

\* C27 (as claimed): the highest world language of the summary row is the label
\* _get_highest_world_language returns for every order of the World Languages bucket.
C27_LanguageOrderAsClaimed ==
  (student_summaries # << >> /\ "World Languages" \in DOMAIN courses_by_dept) =>
    \A p \in Orders(Len(courses_by_dept["World Languages"])) :
      get_highest_world_language(Reordered(p)) = student_summaries[1].highest_language

\* C27: the summary row of the bucket "Latin III", "Latin III (H)" says "III", and
\* the bucket in the other order gives "III (H)".
C27_Witness ==
  /\ student_summaries # << >>
  /\ courses_by_dept = [d \in { "World Languages" } |-> << Latin_III, Latin_III_H >>]
  /\ student_summaries[1].highest_language = "III"
  /\ get_highest_world_language([d \in { "World Languages" } |-> << Latin_III_H, Latin_III >>])
       = "III (H)"

\* the Math titles that score 1.0
FullScoreMath ==
  { Calculus_I_H, AP_Calculus_AB, Calculus_II_H, Statistics_H, Multivariable_Calculus_H }

\* C28 (as claimed): when the Math bucket holds a title that scores 1.0, the
\* summary row does not say "None" both for the highest math and for the
\* additional math.
C28_ScoredMathAsClaimed ==
  (/\ student_summaries # << >>
   /\ "Math" \in DOMAIN courses_by_dept
   /\ Range(courses_by_dept["Math"]) \cap FullScoreMath # {})
    => ~(/\ student_summaries[1].highest_math = None_string
         /\ student_summaries[1].additional_math = "None")

\* C28: the Math bucket is "AP Calculus AB", rated 1.0 on the sheet, and the
\* summary row says "None" in both columns.
C28_Witness ==
  /\ student_summaries # << >>
  /\ courses_by_dept = [d \in { "Math" } |-> << AP_Calculus_AB >>]
  /\ student_sheet[1].curriculum_rating = 2
  /\ student_summaries[1].highest_math = None_string
  /\ student_summaries[1].additional_math = "None"

\* the enrollment just iterated is kept, has no special prefix, a block label with a
\* letter A-G and the department list ["Humanities"]
HumanitiesAlone ==
  /\ KeptNoPrefix
  /\ ~NoLetterAtoG(BlockLabel)
  /\ DepartmentList = << [name |-> "Humanities"] >>

\* C29 (as claimed): with the department list ["Humanities"] the department is
\* History/Social Science exactly for the titles "Social Psychology (H)" and
\* "Politics of Elections (H)", and no error is printed for these two.
C29_HardcodedAsClaimed ==
  HumanitiesAlone =>
    LET t == enrollment.course_title IN
    /\ dept_name = "History/Social Science"
         <=> t \in { Social_Psychology_H, Politics_of_Elections_H }
    /\ t \in { Social_Psychology_H, Politics_of_Elections_H } => ~ErrorPrinted(t)

\* C29: "Politics of Elections (H)" with the department list ["Humanities"] is in
\* Other and the error was printed for it.
C29_Witness ==
  /\ HumanitiesAlone
  /\ enrollment.course_title = Politics_of_Elections_H
  /\ rule = "humanities_error"
  /\ PlacedIn("Other")
  /\ ErrorPrinted(Politics_of_Elections_H)

\* the list b is the list a with courses added at its end
Continues(a, b) == Len(a) <= Len(b) /\ SubSeq(b, 1, Len(a)) = a

\* the scorer is at work on a bucket of the profile, has been called once for each
\* of its first courses, in their order, each time with the course's index and the
\* whole bucket
ScorerFollowsBucket ==
  (department # None /\ department \in DOMAIN courses_by_dept) =>
    /\ all_courses = courses_by_dept[department]
    /\ course_index = Len(scores)
    /\ Len(scores) <= Len(all_courses)
    /\ \A i \in 1..Len(scores) :
         scores[i] = calculate_course_score(department, all_courses[i], i - 1, all_courses)

\* a step leaves every bucket as it is or puts the title of the enrollment it
\* iterates, which is not dropped and was not seen before, at the end of one bucket
AppendOnly ==
  /\ \A d \in DOMAIN courses_by_dept :
       d \in DOMAIN courses_by_dept' /\ Continues(courses_by_dept[d], courses_by_dept'[d])
  /\ courses_by_dept' # courses_by_dept =>
       /\ enrollment'.dropped = 0
       /\ enrollment'.course_title \notin seen_courses
       /\ \E d \in DOMAIN courses_by_dept' :
            /\ courses_by_dept'[d]
                 = (IF d \in DOMAIN courses_by_dept THEN courses_by_dept[d] ELSE << >>)
                     \o << enrollment'.course_title >>
            /\ \A x \in DOMAIN courses_by_dept' \ { d } :
                 x \in DOMAIN courses_by_dept /\ courses_by_dept'[x] = courses_by_dept[x]

\* a call of the scorer is for the course after the ones already scored
ScoredInOrder ==
  Len(scores') > Len(scores) =>
    /\ department' = department
    /\ scores' = Append(scores,
                        calculate_course_score(department,
                                               courses_by_dept[department][Len(scores) + 1],
                                               Len(scores), courses_by_dept[department]))

\* C23: the buckets only grow at their end, by the title of an enrollment that is
\* not dropped and whose title is met for the first time, so that each bucket is in
\* first-seen order; and the scorer is called for the courses of a bucket in that
\* order, each with its index.
C23_FirstSeenOrder ==
  /\ []ScorerFollowsBucket
  /\ [][AppendOnly /\ ScoredInOrder]_vars

\* C23 witness: "Calculus" was folded after "Statistics (H)", stands after it in the
\* Math bucket, and the two were scored in that order.
C23_Witness ==
  /\ pc = "done"
  /\ folded = 2
  /\ enrollment.course_title = Calculus
  /\ enrollment.dropped = 0
  /\ rule = "first_department"
  /\ "Math" \in DOMAIN courses_by_dept
  /\ courses_by_dept["Math"] = << Statistics_H, Calculus >>
  /\ department = "Math"
  /\ scores = << 2, 1 >>

\* the score of the course at place i of the bucket b and the score it has when the
\* bucket ends at place j are the same, and the total of the bucket that ends at j
\* is not below the total of the bucket that ends before j
PrefixStable ==
  \A d \in DOMAIN courses_by_dept :
    LET b == courses_by_dept[d] IN
    \A j \in 1..Len(b) :
      /\ \A i \in 1..j :
           calculate_course_score(d, b[i], i - 1, SubSeq(b, 1, j))
             = calculate_course_score(d, b[i], i - 1, b)
      /\ SeqSum(ScoreAll(d, SubSeq(b, 1, j - 1))) <= SeqSum(ScoreAll(d, SubSeq(b, 1, j)))

\* a step changes the score of no course of the profile and does not lower the
\* curriculum rating
ScoresKept ==
  /\ \A d \in DOMAIN courses_by_dept \cap DOMAIN courses_by_dept' :
       \A i \in 1..Len(courses_by_dept[d]) :
         i <= Len(courses_by_dept'[d]) =>
           ScoreAll(d, courses_by_dept'[d])[i] = ScoreAll(d, courses_by_dept[d])[i]
  /\ AllBucketsSum(courses_by_dept', DOMAIN courses_by_dept')
       >= AllBucketsSum(courses_by_dept, DOMAIN courses_by_dept)

\* C24: the score of a course is the same in every bucket that continues the bucket
\* up to the course; no step of the fold changes the score of a course already
\* placed, and none lowers the curriculum rating.
C24_PrefixStability ==
  /\ []PrefixStable
  /\ [][ScoresKept]_vars

\* C24 witness: the third history course has just been appended; it scores 0.5
\* and the two before it still score 0.
C24_Witness ==
  /\ pc = "loop"
  /\ folded = 3
  /\ enrollment.course_title = Economics
  /\ courses_by_dept = [d \in { "History/Social Science" } |->
                          << Hist2_Modern_Europe, Civics, Economics >>]
  /\ ScoreAll("History/Social Science", courses_by_dept["History/Social Science"])
       = << 0, 0, 1 >>

(* ---- the rows of the student sheet against its totals ---- *)
\* the number a score cell shows; an empty cell adds nothing
Shown(cell) == IF cell = << >> THEN 0 ELSE cell[1]

\* the scores shown in column k of the first n rows, added up
RECURSIVE ShownSum(_, _, _)
ShownSum(rows, k, n) ==
  IF n = 0 THEN 0 ELSE ShownSum(rows, k, n - 1) + Shown(rows[n][k].score)

\* every header total of the section is the sum of the scores in the rows beneath it
SectionAgrees(header, rows) ==
  \A k \in 1..Len(header) : Shown(header[k].score) = ShownSum(rows, k, Len(rows))

\* the rows of the section that show the title under the department
RowsShowing(header, rows, dept, title) ==
  { i \in 1..Len(rows) :
      \E k \in 1..Len(header) : header[k].dept = dept /\ rows[i][k].course = title }

\* C26: on a written student sheet every department total of the top and of the
\* bottom section equals the sum of the scores in the rows beneath it, and every
\* course of the profile is shown in exactly one row.
C26_TotalsMatchRowsAsClaimed ==
  student_sheet # << >> =>
    LET sheet == student_sheet[1] IN
    /\ SectionAgrees(sheet.top_header, sheet.top_rows)
    /\ SectionAgrees(sheet.bottom_header, sheet.bottom_rows)
    /\ \A dept \in DOMAIN courses_by_dept :
         \A n \in 1..Len(courses_by_dept[dept]) :
           Cardinality(RowsShowing(sheet.top_header, sheet.top_rows,
                                   dept, courses_by_dept[dept][n]))
             + Cardinality(RowsShowing(sheet.bottom_header, sheet.bottom_rows,
                                       dept, courses_by_dept[dept][n])) = 1

\* a sheet written for eleven Literature courses: the header shows 2.5, the ten rows
\* add up to 2.0 and the eleventh course is in no row
C26_Witness ==
  /\ student_sheet # << >>
  /\ "Literature" \in DOMAIN courses_by_dept
  /\ Len(courses_by_dept["Literature"]) = TopRows + 1
  /\ student_sheet[1].top_header[1] = [score |-> << 5 >>, dept |-> "Literature"]
  /\ ShownSum(student_sheet[1].top_rows, 1, TopRows) = 4
  /\ RowsShowing(student_sheet[1].top_header, student_sheet[1].top_rows,
                 "Literature", Lit_H) = {}

(* ---- the roster against the pages of the API ---- *)
\* the reply carries a page: status 200 and a body with keys
IsPage(reply) == reply.status = 200 /\ DOMAIN reply.json # {}

\* the reply carries a page that links to a further page
HasNextLink(reply) ==
  /\ IsPage(reply)
  /\ "next_link" \in DOMAIN reply.json
  /\ reply.json.next_link # << >>

\* the five fields of the users of a page, in the order of the page
StudentsOf(reply) ==
  IF IsPage(reply) /\ "value" \in DOMAIN reply.json
    THEN [k \in 1..Len(reply.json.value) |->
            LET u == reply.json.value[k]
                F(key) == IF key \in DOMAIN u THEN u[key] ELSE None
            IN [ id |-> F("id"), first_name |-> F("first_name"),
                 last_name |-> F("last_name"), email |-> F("email"),
                 grad_year |-> F("grad_year") ]]
    ELSE << >>

\* the students of the first n exchanges, page after page
RECURSIVE Accumulated(_, _)
Accumulated(exchanges, n) ==
  IF n = 0 THEN << >>
  ELSE Accumulated(exchanges, n - 1) \o StudentsOf(exchanges[n].reply)

\* C30: get_seniors requests 'v1/users' and then what each next_link names, never
\* requests anything after a failed request or after a page without a next_link,
\* holds the students of the fetched pages in page order, each page once, and
\* returns that list, after a failed request too, as soon as it has stopped.
C30_RosterPagination ==
  /\ \A n \in 1..Len(api_log) :
       IF n = 1
         THEN api_log[n].endpoint = << "v1/users" >> /\ api_log[n].params # << >>
         ELSE /\ HasNextLink(api_log[n - 1].reply)
              /\ << "https://api.sky.blackbaud.com/school" >> \o api_log[n].endpoint
                   = api_log[n - 1].reply.json.next_link
              /\ api_log[n].params = << >>
  /\ seniors = Accumulated(api_log, Len(api_log))
  /\ IF api_log # << >> /\ ~HasNextLink(api_log[Len(api_log)].reply)
       THEN returned = << Accumulated(api_log, Len(api_log)) >>
       ELSE returned = << >>

\* the second request failed after a page of two students: the two are returned
C30_Witness ==
  /\ Len(api_log) = 2
  /\ api_log[1].reply.status = 200
  /\ api_log[2].reply.status = 500
  /\ Len(seniors) = 2
  /\ seniors[1].id = "102" /\ seniors[1].email = None
  /\ seniors[2].id = "103"
  /\ returned = << seniors >>

(* ---- the cache across the runs of the export ---- *)
\* the cache file exists and holds a JSON document
Loadable(file) == IF file = << >> THEN FALSE ELSE file[1].valid

\* the JSON object is the student, value for value
ObjectIs(object, student) ==
  LET T(v) == IF v = "<None>" THEN << "null" >> ELSE << "string", v >> IN
  /\ object.id = T(student.id)
  /\ object.first_name = T(student.first_name)
  /\ object.last_name = T(student.last_name)
  /\ object.email = T(student.email)
  /\ object.grad_year = T(student.grad_year)
  /\ DOMAIN object.courses = DOMAIN student.courses
  /\ \A dept \in DOMAIN student.courses :
       /\ Len(object.courses[dept]) = Len(student.courses[dept])
       /\ \A i \in 1..Len(student.courses[dept]) :
            object.courses[dept][i] = << "string", student.courses[dept][i] >>

\* the file holds exactly the students, in their order
CacheHolds(file, students) ==
  /\ Len(file[1].text) = Len(students)
  /\ \A k \in 1..Len(students) : ObjectIs(file[1].text[k], students[k])

\* how many of n students --limit leaves: all without a limit or with 0, the first
\* ones up to a positive limit, all but the last ones for a negative limit
LeftByLimit(n, limit) ==
  IF limit = << >> THEN n
  ELSE IF limit[1] = 0 THEN n
  ELSE IF limit[1] > 0 THEN (IF limit[1] < n THEN limit[1] ELSE n)
  ELSE (IF n + limit[1] > 0 THEN n + limit[1] ELSE 0)

\* the run processed the students of the roster the limit leaves, and only those
ProcessedAfterLimit(r) ==
  /\ Len(r.students_data) = LeftByLimit(Len(r.roster), r.limit_students)
  /\ \A k \in 1..Len(r.students_data) :
       /\ r.students_data[k].id = r.roster[k].id
       /\ r.students_data[k].last_name = r.roster[k].last_name

\* a run that finds a loadable cache and is not told to reload authenticates with
\* nothing, requests nothing, leaves the cache alone and exports students of the
\* cache only: all of them without a limit
UsesCache ==
  (runs' = runs + 1 /\ Loadable(cache_file) /\ ~run'[1].reload) =>
    /\ run'[1].authentications = 0
    /\ run'[1].api_requests = 0
    /\ cache_file' = cache_file
    /\ \A k \in 1..Len(run'[1].students_data) :
         /\ k <= Len(cache_file[1].text)
         /\ ObjectIs(cache_file[1].text[k], run'[1].students_data[k])
         /\ run'[1].students_data[k] = cached_from[1][k]
    /\ run'[1].limit_students = << >> => run'[1].students_data = cached_from[1]

\* a run that fetches processes what the limit leaves of the roster, and what a
\* save puts into the cache are the students of such a run
WritesCache ==
  /\ (runs' = runs + 1 /\ ~run'[1].from_cache /\ run'[1].result # "False") =>
       ProcessedAfterLimit(run'[1])
  /\ (cached_from' # cached_from /\ cached_from' # << >>) =>
       /\ ~run'[1].from_cache
       /\ cached_from'[1] = run'[1].students_data

\* C25: a run with a loadable cache and without reload makes no Blackbaud
\* authentication or request and exports only students of the cache; a loadable
\* cache holds exactly the students a fetching run processed after its limit was
\* applied, so a later run without reload and without limit exports those students.
C25_CacheAndLimit ==
  /\ [](Loadable(cache_file) =>
          /\ cached_from # << >>
          /\ CacheHolds(cache_file, cached_from[1]))
  /\ [][UsesCache /\ WritesCache]_vars

\* the second run, without reload and without limit, exports from the cache the
\* one student an earlier run limited to one student had saved
C25_Witness ==
  /\ runs = 2
  /\ run[1].from_cache
  /\ ~run[1].reload
  /\ run[1].limit_students = << >>
  /\ run[1].api_requests = 0
  /\ Len(run[1].students_data) = 1
  /\ run[1].students_data[1].id = "101"
  /\ cached_from = << run[1].students_data >>
  /\ Loadable(cache_file)

====
